---------------------------- MODULE Spec2Model ----------------------------
(***************************************************************************)
(* MyFS: an in-memory file system living in one contiguous byte region.    *)
(*                                                                         *)
(* The region is modelled as a word-addressed memory: a function from the  *)
(* byte offsets that are multiples of sizeof(size_t) to the 64-bit word    *)
(* stored there.  Every structure of implementation.h is laid out in that  *)
(* memory at the offsets the C compiler gives it on LP64, so that unions,  *)
(* stale bytes and overlapping writes behave as they do in the code.       *)
(* Host pointers into the region are represented by their offset from      *)
(* fsptr; the host NULL pointer is the distinguished value NULL.           *)
(***************************************************************************)
EXTENDS Integers, Sequences, FiniteSets, TLC

VARIABLES
    mem,     \* the region: word offset -> word
    now,     \* the host clock read by update_time
    live,    \* payload offsets handed out by the allocator and not yet freed
    fault,   \* "none", or the undefined behaviour the last call ran into
    calls,   \* allocator specification: calls made so far
    last     \* the last call: operation, arguments, return value, error slot

vars == <<mem, now, live, fault, calls, last>>

---------------------------------------------------------------------------
(* Bounds of the model *)

ExtraWords == 0      \* region size beyond the guaranteed minimum, in words
MaxClock   == 2      \* the clock saturates here
MaxLive    == 3      \* allocator specification: live blocks at a time
MaxWrites == 4        \* file system: calls that change the region
MaxAllocCalls == 5   \* allocator specification: length of a call sequence
MaxCreates == 5      \* creates alone: calls that change the region

---------------------------------------------------------------------------
(* Program constants and structure layout (LP64) *)

MAGIC_NUMBER == 182304495        \* 0xADDBEEF
NAME_MAX_LEN == 255
BLOCK_SIZE   == 1024
MinFsSize    == 2048
NULL         == -1
S_IFDIR      == 16384            \* __S_IFDIR, 0040000
S_IFREG      == 32768            \* __S_IFREG, 0100000
Perm0755     == 493              \* 0755, the fixed permission bits

SizeT          == 8      \* sizeof(size_t) == sizeof(fs_offset)
DataBlockSize  == 16     \* sizeof(data_block_t)
SuperblockSize == 32     \* sizeof(superblock_t)
InodeSize      == 312    \* sizeof(inode_t)
FileBlockSize  == 32     \* sizeof(file_block_t)

OffMagic   == 0          \* superblock_t.magic_number
OffFreeMem == 8          \* superblock_t.free_memory (list_t.head)
OffRootDir == 16         \* superblock_t.root_directory
OffSize    == 24         \* superblock_t.size
OffNext    == 8          \* data_block_t.next
OffTime0   == 256        \* inode_t.time[0]
OffTime1   == 272        \* inode_t.time[1]
OffType    == 288        \* inode_t.type
OffValue0  == 296        \* inode_t.value.file.size / .directory.num_children
OffValue1  == 304        \* inode_t.value.file.first_block / .directory.children

FsSize == MinFsSize + SizeT * ExtraWords

Addrs == {SizeT * i : i \in 0 .. (FsSize \div SizeT) - 1}

ZeroRegion == [a \in Addrs |-> 0]

\* unsigned comparison of two words kept as signed integers
ULt(a, b) == IF (a < 0) = (b < 0) THEN a < b ELSE b < 0
ULe(a, b) == a = b \/ ULt(a, b)

---------------------------------------------------------------------------
(* Offset / pointer translation *)

pointer_to_offset(p) == IF p < 0 THEN 0 ELSE p

\* fsptr + my_offset wraps below fsptr exactly for the words kept negative here
offset_to_pointer(o) == IF o < 0 THEN NULL ELSE o

---------------------------------------------------------------------------
(* (2) Memory allocation *)

RECURSIVE LastBlockBelow(_, _, _, _)
\* add_to_free_memory's walk: the last block of the list below new_block
LastBlockBelow(m, cur, nb, fuel) ==
    IF fuel = 0 THEN cur
    ELSE IF m[cur + OffNext] # 0 /\ ULt(m[cur + OffNext], nb)
         THEN LastBlockBelow(m, m[cur + OffNext], nb, fuel - 1)
         ELSE cur

add_to_free_memory(m, nb) ==
    LET SetNext(m2, from) == [m2 EXCEPT ![nb + OffNext] = m2[from + OffNext]]
        HeadSet(m1, head) ==                   \* new_block is the new head
            IF nb + SizeT + m1[nb] = head
            THEN SetNext([m1 EXCEPT ![nb] = m1[nb] + SizeT + m1[head]], head)
            ELSE [m1 EXCEPT ![nb + OffNext] = head]
        CurNext(m2, cur) == [m2 EXCEPT ![cur + OffNext] = m2[nb + OffNext]]
        Joined(m1, cur) ==                     \* merge with the block before
            IF cur + SizeT + m1[cur] = nb
            THEN CurNext([m1 EXCEPT ![cur] = m1[cur] + SizeT + m1[nb]], cur)
            ELSE [m1 EXCEPT ![cur + OffNext] = nb]
        After(cur, nxt) ==                     \* merge with the block after
            Joined(IF nxt # 0
                   THEN IF nb + SizeT + m[nb] = nxt
                        THEN SetNext([m EXCEPT ![nb] = m[nb] + SizeT + m[nxt]], nxt)
                        ELSE [m EXCEPT ![nb + OffNext] = nxt]
                   ELSE [m EXCEPT ![nb + OffNext] = 0],
                   cur)
        Found(cur) == After(cur, m[cur + OffNext])
        From(head) ==
            IF ULt(nb, head) THEN HeadSet([m EXCEPT ![OffFreeMem] = nb], head)
            ELSE Found(LastBlockBelow(m, head, nb, Cardinality(Addrs)))
    IN  From(m[OffFreeMem])

RECURSIVE FindLargest(_, _, _, _, _, _)
\* get_memory_block's scan with no selected block: <<before_largest, largest>>
FindLargest(m, before, cur, bl, lo, fuel) ==
    IF cur = 0 \/ fuel = 0 THEN <<bl, lo>>
    ELSE IF ULt(m[lo], m[cur])
         THEN FindLargest(m, cur, m[cur + OffNext], before, cur, fuel - 1)
         ELSE FindLargest(m, cur, m[cur + OffNext], bl, lo, fuel - 1)

\* get_memory_block(fsptr, ll, fsptr, &size): no selected block
get_memory_block(m, size) ==
    LET Split(bl, lo, sz, R, temp) ==          \* the rest stays on the list
            [m |-> [m EXCEPT ![temp] = R - sz - SizeT,
                             ![temp + OffNext] = m[lo + OffNext],
                             ![IF bl = NULL THEN OffFreeMem ELSE bl + OffNext] = temp,
                             ![lo] = sz],
             ptr |-> lo + SizeT, size |-> 0]
        Take(bl, lo, sz, R) ==
            IF ULe(sz, R)
            THEN IF ULt(sz + DataBlockSize, R)
                 THEN Split(bl, lo, sz, R, lo + SizeT + sz)
                 ELSE [m |-> IF bl # NULL
                             THEN [m EXCEPT ![bl + OffNext] = m[lo + OffNext]]
                             ELSE [m EXCEPT ![OffFreeMem] = 0],
                       ptr |-> lo + SizeT, size |-> 0]
            ELSE IF bl = NULL
                 THEN [m |-> m, ptr |-> NULL, size |-> sz]
                 ELSE [m |-> [m EXCEPT ![bl + OffNext] = m[lo + OffNext]],
                       ptr |-> lo + SizeT, size |-> sz - R]
        Largest(fl, sz) == Take(fl[1], fl[2], sz, m[fl[2]])
        From(head) ==
            IF head = 0 THEN [m |-> m, ptr |-> NULL, size |-> size]
            ELSE Largest(FindLargest(m, head, m[head + OffNext], NULL, head,
                                     Cardinality(Addrs)),
                         IF ULt(size, DataBlockSize) THEN DataBlockSize ELSE size)
    IN  From(m[OffFreeMem])

malloc_impl(m, size) ==
    IF size = 0 THEN [m |-> m, ptr |-> NULL, size |-> size]
    ELSE get_memory_block(m, size)

free_impl(m, ptr) ==
    IF ptr = NULL THEN m ELSE add_to_free_memory(m, ptr - SizeT)

---------------------------------------------------------------------------
(* The free list as the allocator sees it *)

RECURSIVE ListFrom(_, _, _)
ListFrom(m, off, fuel) ==
    IF off = 0 \/ fuel = 0 \/ off \notin Addrs \/ off + OffNext \notin Addrs
    THEN <<>>
    ELSE <<[off |-> off, remaining |-> m[off]]>>
         \o ListFrom(m, m[off + OffNext], fuel - 1)

FreeList(m) == ListFrom(m, m[OffFreeMem], Cardinality(Addrs))

Range(s) == {s[i] : i \in DOMAIN s}

---------------------------------------------------------------------------
(* realloc_impl.  The result carries the region, the returned pointer, the *)
(* size out-parameter and the undefined behaviour met, if any.             *)

\* memcpy(dst, src, n) inside the region, n a multiple of the word size
Memcpy(m, dst, src, n) ==
    [a \in Addrs |->
        IF dst <= a /\ a < dst + n THEN m[src + (a - dst)] ELSE m[a]]

\* mutant: a block asked to shrink is returned as it is, the tail kept
realloc_keeps_tail(m, orig, size) ==
    IF size = 0
    THEN [m |-> free_impl(m, orig), ptr |-> NULL, size |-> size, fault |-> "none"]
    ELSE IF ULe(size, m[orig - SizeT])
    THEN [m |-> m, ptr |-> orig, size |-> size, fault |-> "none"]
    ELSE [m |-> m, ptr |-> NULL, size |-> size, fault |-> "none"]

realloc_impl(m, orig, size) ==
    LET Res(m1, ptr, sz, flt) == [m |-> m1, ptr |-> ptr, size |-> sz, fault |-> flt]
        Moved(alloc, g, n) ==                  \* a block was taken: copy and free
            IF g.size = 0 THEN Res(g.m, NULL, 0, "none")
            ELSE IF g.ptr = NULL THEN Res(g.m, NULL, g.size, "memcpy to NULL")
            ELSE IF g.ptr + n > FsSize
            THEN Res(g.m, g.ptr, g.size, "memcpy past the region")
            ELSE IF g.ptr < orig + n /\ orig < g.ptr + n
            THEN Res(g.m, g.ptr, g.size, "memcpy of overlapping blocks")
            ELSE Res(add_to_free_memory(Memcpy(g.m, g.ptr, orig, n), alloc),
                     g.ptr, g.size, "none")
        Got(alloc, g) == Moved(alloc, g, g.m[alloc])
        Sized(alloc, R) ==
            IF ULe(size, R) /\ ULt(R, size + DataBlockSize)
            THEN Res(m, orig, size, "none")
            ELSE IF ULt(size, R)
            THEN Res([add_to_free_memory(
                          [m EXCEPT ![orig + size] = R - size - SizeT,
                                    ![orig + size + OffNext] = 0],
                          orig + size)
                        EXCEPT ![alloc] = size],
                     orig, size, "none")
            ELSE Got(alloc, get_memory_block(m, size))
    IN  IF size = 0 THEN Res(free_impl(m, orig), NULL, size, "none")
        ELSE IF orig = 0 THEN get_memory_block(m, size) @@ [fault |-> "none"]
        ELSE Sized(orig - SizeT, m[orig - SizeT])

---------------------------------------------------------------------------
(* Names.  A name is a sequence of bytes; the name field of an inode keeps *)
(* it packed little-endian, NUL padded, as the bytes lie in memory.        *)

RECURSIVE Pack(_)
Pack(s) == IF s = <<>> THEN 0 ELSE Head(s) + 256 * Pack(Tail(s))

NameWords == (NAME_MAX_LEN + 1) \div SizeT

\* A word that holds more than three bytes of a name has a value beyond the
\* integers kept here.  It is kept as a number at or below -WideBase that
\* tells its eight bytes apart: one digit in base 8 for each byte, 0 for NUL
\* and the position in NameChars for a byte of a name.
WideBase == 1073741824

\* the bytes that names are made of
NameChars == <<97, 98, 99, 100, 120, 46, 101>>

CharCode(c) == CHOOSE i \in 1 .. Len(NameChars) : NameChars[i] = c

RECURSIVE WidePack(_)
WidePack(s) == IF s = <<>> THEN 0 ELSE CharCode(Head(s)) + 8 * WidePack(Tail(s))

RECURSIVE WideUnpack(_)
WideUnpack(v) ==
    IF v % 8 = 0 THEN <<>> ELSE <<NameChars[v % 8]>> \o WideUnpack(v \div 8)

\* the word that holds the bytes s, at most eight, NUL padded
PackWord(s) == IF Len(s) <= 3 THEN Pack(s) ELSE (0 - WideBase) - WidePack(s)

\* word k of the name field after memset(name, 0, 256) and memcpy(name, s, len)
NameWord(s, k) ==
    PackWord(SubSeq(s, SizeT * k + 1,
                    IF SizeT * k + SizeT < Len(s) THEN SizeT * k + SizeT ELSE Len(s)))

update_time(m, node, set_mod, t) ==
    IF node = NULL THEN m
    ELSE LET m1 == [m EXCEPT ![node + OffTime0] = t, ![node + OffTime0 + SizeT] = 0]
         IN  IF set_mod # 0
             THEN [m1 EXCEPT ![node + OffTime1] = t, ![node + OffTime1 + SizeT] = 0]
             ELSE m1

\* store into the one-byte type field, leaving the padding bytes beside it
SetType(m, node, t) ==
    [m EXCEPT ![node + OffType] = (m[node + OffType] \div 256) * 256 + t]

TypeOf(m, node) == m[node + OffType] % 256

\* lines 577-606: first-time initialisation of the region
FormatRegion(m, fssize, t) ==
    LET root     == SuperblockSize
        csize    == SuperblockSize + InodeSize
        children == SuperblockSize + InodeSize + SizeT
        fb       == SuperblockSize + InodeSize + SizeT + 4 * SizeT
    IN  [a \in Addrs |->
           CASE a = OffMagic   -> MAGIC_NUMBER
             [] a = OffSize    -> fssize
             [] a = OffRootDir -> root
             [] a = OffFreeMem -> fb
             [] a = root       -> Pack(<<47>>)
             [] a > root /\ a < root + SizeT * NameWords -> 0
             [] a = root + OffTime0 \/ a = root + OffTime1 -> t
             [] a = root + OffTime0 + SizeT \/ a = root + OffTime1 + SizeT -> 0
             [] a = root + OffType   -> (m[a] \div 256) * 256 + 2
             [] a = root + OffValue0 -> 1
             [] a = root + OffValue1 -> children
             [] a = csize      -> 4 * SizeT
             [] a = children   -> 0
             [] a = fb         -> fssize - fb - SizeT
             [] a > fb         -> 0
             [] OTHER          -> m[a]]

\* mutant: the region is formatted at every mount
mount_always_formats(m, fssize, t) == FormatRegion(m, fssize, t)

\* mutant: the first mount forgets to record the size
mount_forgets_size(m, fssize, t) ==
    IF m[OffMagic] # MAGIC_NUMBER
    THEN [FormatRegion(m, fssize, t) EXCEPT ![OffSize] = 0]
    ELSE m

mount_filesystem(m, fssize, t) ==
    IF m[OffMagic] # MAGIC_NUMBER THEN FormatRegion(m, fssize, t) ELSE m

---------------------------------------------------------------------------
(* The allocator on its own: malloc_impl, free_impl and realloc_impl called *)
(* on a mounted region by a client that frees only what it was given.       *)

AllocSizes == {8, 32, 1024}
ReallocSizes == {0, 16, 64, 1024}

NoStat == [written |-> {}, mode |-> 0, nlink |-> 0, size |-> 0,
           atime |-> 0, mtime |-> 0]

\* the record of the last call: its name and inputs, whether it returned,
\* its results, and the free list (pre) or the region (mem0) as it found them
NoCall == [op |-> "none", path |-> <<>>, arg |-> 0, done |-> TRUE, ret |-> 0,
           err |-> "none", size |-> 0, pre |-> <<>>, mem0 |-> <<>>,
           st |-> NoStat, names |-> <<>>, buf |-> <<>>, off |-> 0, to |-> <<>>,
           host |-> 0, orig |-> NULL]

InitAlloc ==
    /\ mem = mount_filesystem(ZeroRegion, FsSize, 1)
    /\ now = 1
    /\ live = {}
    /\ fault = "none"
    /\ calls = 0
    /\ last = NoCall

AMalloc(n) ==
    /\ fault = "none"
    /\ calls < MaxAllocCalls
    /\ calls' = calls + 1
    /\ Cardinality(live) < MaxLive
    /\ LET r == malloc_impl(mem, n) IN
       /\ mem' = r.m
       /\ live' = IF r.ptr # NULL THEN live \cup {r.ptr} ELSE live
       /\ last' = [NoCall EXCEPT !.op = "malloc", !.arg = n, !.ret = r.ptr,
                                  !.size = r.size, !.pre = FreeList(mem),
                                  !.mem0 = mem]
    /\ UNCHANGED <<now, fault>>

AFree(p) ==
    /\ fault = "none"
    /\ calls < MaxAllocCalls
    /\ calls' = calls + 1
    /\ mem' = free_impl(mem, p)
    /\ live' = live \ {p}
    /\ last' = [NoCall EXCEPT !.op = "free", !.arg = p, !.pre = FreeList(mem),
                              !.mem0 = mem, !.orig = p]
    /\ UNCHANGED <<now, fault>>

ARealloc(p, n) ==
    /\ fault = "none"
    /\ calls < MaxAllocCalls
    /\ calls' = calls + 1
    /\ LET r == realloc_impl(mem, p, n) IN
       /\ mem' = r.m
       /\ fault' = r.fault
       /\ live' = IF r.fault # "none" THEN live
                  ELSE IF n = 0 THEN live \ {p}
                  ELSE IF r.ptr = NULL THEN live
                  ELSE (live \ {p}) \cup {r.ptr}
       /\ last' = [NoCall EXCEPT !.op = "realloc", !.arg = n, !.ret = r.ptr,
                                  !.done = (r.fault = "none"),
                                  !.size = r.size, !.pre = FreeList(mem),
                                  !.mem0 = mem, !.orig = p]
    /\ UNCHANGED now

NextAlloc ==
    \/ \E n \in AllocSizes : AMalloc(n)
    \/ \E p \in live : AFree(p)
    \/ \E p \in live, n \in ReallocSizes : ARealloc(p, n)

SpecAlloc == InitAlloc /\ [][NextAlloc]_vars

---------------------------------------------------------------------------
(* Measures of the allocator's state *)

RECURSIVE SumSeq(_)
SumSeq(s) == IF s = <<>> THEN 0 ELSE Head(s) + SumSeq(Tail(s))

RECURSIVE SumSet(_, _)
SumSet(S, m) ==
    IF S = {} THEN 0
    ELSE LET p == CHOOSE x \in S : TRUE
         IN  SizeT + m[p - SizeT] + SumSet(S \ {p}, m)

FreeBytes(m) ==
    LET L == FreeList(m)
    IN  SumSeq([i \in 1 .. Len(L) |-> SizeT + L[i].remaining])

\* the first free block installed at mount starts here
FirstFree == SuperblockSize + InodeSize + SizeT + 4 * SizeT

\* the walk from the head reaches the terminator 0 through in-region blocks
RECURSIVE ListEnds(_, _, _)
ListEnds(m, off, fuel) ==
    \/ off = 0
    \/ /\ fuel > 0
       /\ off \in Addrs
       /\ off + OffNext \in Addrs
       /\ ListEnds(m, m[off + OffNext], fuel - 1)

WellFormed(m) ==
    LET L == FreeList(m) IN
    /\ ListEnds(m, m[OffFreeMem], Cardinality(Addrs))
    /\ \A i \in 1 .. Len(L) :
          /\ L[i].remaining >= 0
          /\ L[i].off + SizeT + L[i].remaining <= FsSize
          /\ i < Len(L) => L[i].off + SizeT + L[i].remaining < L[i + 1].off

---------------------------------------------------------------------------
(* Paths and names: sequences of bytes, without the terminating NUL *)

SLASH == 47
DOT   == 46

RECURSIVE UnpackBytes(_)
UnpackBytes(w) ==
    IF w % 256 = 0 THEN <<>> ELSE <<w % 256>> \o UnpackBytes(w \div 256)

\* the bytes of the word w up to its first NUL.  A wrapped number has no NUL
\* among its upper bytes and is no part of a name: the marker NULL stands
\* for its bytes.
Unpack(w) ==
    IF w >= 0 THEN UnpackBytes(w)
    ELSE IF w <= 0 - WideBase THEN WideUnpack((0 - WideBase) - w)
    ELSE <<NULL>>

RECURSIVE NameFrom(_, _, _)
\* the C string that starts at word k of the name field of the inode at node
NameFrom(m, node, k) ==
    IF k = NameWords THEN <<>>
    ELSE LET Joined(s) ==
                 IF Len(s) < SizeT THEN s ELSE s \o NameFrom(m, node, k + 1)
         IN  Joined(Unpack(m[node + SizeT * k]))

\* node->name as strcmp, strlen and strcpy read it
NameOf(m, node) == NameFrom(m, node, 0)

\* tokenize's first loop: the occurrences of c in s
CountChar(c, s) == Cardinality({i \in 1 .. Len(s) : s[i] = c})

\* tokenize's inner loop: from index start on, the index of the first byte
\* that is the separator, or of the terminating NUL
TokenEnd(token, path, start) ==
    LET ends == {i \in start .. Len(path) : path[i] = token} \cup {Len(path) + 1}
    IN  CHOOSE e \in ends : \A x \in ends : e <= x

RECURSIVE TokensFrom(_, _, _, _)
\* tokenize's outer loop: the next n tokens from index start on
TokensFrom(token, path, start, n) ==
    IF n <= 0 THEN <<>>
    ELSE LET Cut(e) == <<SubSeq(path, start, e - 1)>>
                          \o TokensFrom(token, path, e + 1, n - 1)
         IN  Cut(TokenEnd(token, path, start))

tokenize(token, path, skip_n_tokens) ==
    TokensFrom(token, path, 2, CountChar(token, path) - skip_n_tokens)

\* get_last_token's loop, on 0-based indices: from i down, it stops at the
\* first '/' it meets or at index 0
LastSlashIndex(path, i) ==
    LET stops == {j \in 1 .. i : path[j + 1] = SLASH} \cup {0}
    IN  CHOOSE j \in stops : \A x \in stops : x <= j

\* mutant: the index is not moved past the last '/'
last_token_keeps_slash(path) ==
    SubSeq(path, LastSlashIndex(path, Len(path) - 1) + 1, Len(path))

get_last_token(path) ==
    LET last_slash_index == LastSlashIndex(path, Len(path) - 1) + 1
    IN  SubSeq(path, last_slash_index + 1, Len(path))

\* a whole inode lies at offset n of the region
InodeAt(n) == n \in Addrs /\ n + OffValue1 \in Addrs

RECURSIVE ScanChildren(_, _, _, _, _)
\* get_node's loop over slots i .. num_children - 1
ScanChildren(m, ch, nc, i, child) ==
    IF ~ULt(i, nc) THEN [node |-> NULL, fault |-> "none"]
    ELSE IF ch + SizeT * i \notin Addrs
    THEN [node |-> NULL, fault |-> "child slot outside the region"]
    ELSE LET node == offset_to_pointer(m[ch + SizeT * i]) IN
         IF ~InodeAt(node)
         THEN [node |-> NULL, fault |-> "child inode outside the region"]
         ELSE IF NameOf(m, node) = child
         THEN [node |-> node, fault |-> "none"]
         ELSE ScanChildren(m, ch, nc, i + 1, child)

get_node(m, directory, child) ==
    LET num_children == m[directory + OffValue0]
        children_offsets == offset_to_pointer(m[directory + OffValue1])
    IN  IF child = <<DOT, DOT>>
        THEN IF children_offsets \notin Addrs
             THEN [node |-> NULL, fault |-> "children table outside the region"]
             ELSE [node |-> offset_to_pointer(m[children_offsets]),
                   fault |-> "none"]
        ELSE ScanChildren(m, children_offsets, num_children, 1, child)

RECURSIVE WalkTokens(_, _, _)
\* resolve_path's loop over the tokens
WalkTokens(m, node, tokens) ==
    IF tokens = <<>> THEN [node |-> node, fault |-> "none"]
    ELSE IF ~InodeAt(node)
    THEN [node |-> NULL, fault |-> "inode outside the region"]
    ELSE IF TypeOf(m, node) = 1 THEN [node |-> NULL, fault |-> "none"]
    ELSE IF Head(tokens) = <<DOT>> THEN WalkTokens(m, node, Tail(tokens))
    ELSE LET r == get_node(m, node, Head(tokens)) IN
         IF r.fault # "none" \/ r.node = NULL THEN r
         ELSE WalkTokens(m, r.node, Tail(tokens))

\* mutant: the first byte of the path is not looked at
resolve_path_any_start(m, path, skip_n_tokens) ==
    IF path = <<>> THEN [node |-> NULL, fault |-> "none"]
    ELSE LET node == offset_to_pointer(m[OffRootDir]) IN
         IF Len(path) = 1 THEN [node |-> node, fault |-> "none"]
         ELSE WalkTokens(m, node, tokenize(SLASH, path, skip_n_tokens))

resolve_path(m, path, skip_n_tokens) ==
    IF path = <<>> \/ Head(path) # SLASH
    THEN [node |-> NULL, fault |-> "none"]
    ELSE LET node == offset_to_pointer(m[OffRootDir]) IN
         IF Len(path) = 1 THEN [node |-> node, fault |-> "none"]
         ELSE WalkTokens(m, node, tokenize(SLASH, path, skip_n_tokens))

---------------------------------------------------------------------------
(* The allocator as the file system calls it.  A call that would walk a    *)
(* free list leaving the region is undefined behaviour.                    *)

ListInRegion(m) ==
    /\ ListEnds(m, m[OffFreeMem], Cardinality(Addrs))
    /\ \A b \in Range(FreeList(m)) :
          b.remaining >= 0 /\ b.off + SizeT + b.remaining <= FsSize

\* free_impl on a pointer computed from region contents
FsFree(m, ptr) ==
    IF ptr = NULL THEN [m |-> m, fault |-> "none"]
    ELSE IF ptr - SizeT \notin Addrs \/ ptr \notin Addrs \/ ~ListInRegion(m)
    THEN [m |-> m, fault |-> "free outside the region"]
    ELSE [m |-> free_impl(m, ptr), fault |-> "none"]

FsMalloc(m, size) ==
    IF ~ListInRegion(m)
    THEN [m |-> m, ptr |-> NULL, size |-> size, fault |-> "corrupt free list"]
    ELSE malloc_impl(m, size) @@ [fault |-> "none"]

FsRealloc(m, orig, size) ==
    IF orig - SizeT \notin Addrs \/ ~ListInRegion(m)
    THEN [m |-> m, ptr |-> NULL, size |-> size,
          fault |-> "realloc outside the region"]
    ELSE realloc_impl(m, orig, size)

---------------------------------------------------------------------------
(* make_node.  The result carries the region, the returned inode (NULL on  *)
(* failure), the error written to *errnoptr ("none" if none was written)   *)
(* and the undefined behaviour met, if any.                                *)

MkRes(m, node, err, flt) == [m |-> m, node |-> node, err |-> err, fault |-> flt]

\* lines 842-878: the new inode is initialised and linked into the parent
InitNode(m, parent_node, children, new_node, name, is_file, t) ==
    LET Tabled(m7, r) ==                                   \* lines 867-875
            IF r.fault # "none" THEN MkRes(r.m, NULL, "none", r.fault)
            ELSE IF r.size # 0 \/ r.ptr = NULL
            THEN LET Freed(f) == MkRes(f.m, NULL, "ENOSPC", f.fault)
                 IN  Freed(FsFree(r.m, r.ptr))
            ELSE MkRes([r.m EXCEPT ![new_node + OffValue1] = pointer_to_offset(r.ptr),
                                   ![r.ptr] = pointer_to_offset(parent_node)],
                       new_node, "none", "none")
        Typed(m5) ==                                       \* lines 852-876
            IF is_file # 0
            THEN MkRes([SetType(m5, new_node, 1) EXCEPT ![new_node + OffValue0] = 0,
                                                        ![new_node + OffValue1] = 0],
                       new_node, "none", "none")
            ELSE LET Sized(m7) == Tabled(m7, FsMalloc(m7, 4 * SizeT))
                 IN  Sized([SetType(m5, new_node, 2) EXCEPT ![new_node + OffValue0] = 1])
        Linked(m2, nc) ==                                  \* lines 848-850
            IF children = NULL \/ children + SizeT * nc \notin Addrs
            THEN MkRes(m2, NULL, "none", "child slot written outside the region")
            ELSE Typed(update_time(
                     [m2 EXCEPT ![children + SizeT * nc] = pointer_to_offset(new_node),
                                ![parent_node + OffValue0] = nc + 1],
                     parent_node, 1, t))
        Named(m2) == Linked(m2, m2[parent_node + OffValue0])
    IN  Named(update_time(                                 \* lines 843-845
            [a \in Addrs |->
                IF a >= new_node /\ a < new_node + SizeT * NameWords
                THEN NameWord(name, (a - new_node) \div SizeT)
                ELSE m[a]],
            new_node, 1, t))

\* lines 833-840: the inode is allocated
AllocNode(m, parent_node, children, name, is_file, t) ==
    LET Made(r) ==
            IF r.fault # "none" THEN MkRes(r.m, NULL, "none", r.fault)
            ELSE IF r.size # 0 \/ r.ptr = NULL
            THEN LET Freed(f) == MkRes(f.m, NULL, "ENOSPC", f.fault)
                 IN  Freed(FsFree(r.m, r.ptr))
            ELSE InitNode(r.m, parent_node, children, r.ptr, name, is_file, t)
    IN  Made(FsMalloc(m, InodeSize))

make_node(m, path, is_file, t) ==
    LET Grown(parent_node, name, r) ==                     \* lines 819-830
            IF r.fault # "none" THEN MkRes(r.m, NULL, "none", r.fault)
            ELSE IF r.size # 0 THEN MkRes(r.m, NULL, "ENOSPC", "none")
            ELSE AllocNode([r.m EXCEPT ![parent_node + OffValue1] =
                                           pointer_to_offset(r.ptr)],
                           parent_node, r.ptr, name, is_file, t)
        Placed(parent_node, name, children) ==             \* lines 809-831
            IF children = NULL \/ children - SizeT \notin Addrs
            THEN MkRes(m, NULL, "none", "children table outside the region")
            ELSE IF m[children - SizeT] \div SizeT = m[parent_node + OffValue0]
            THEN Grown(parent_node, name,
                       FsRealloc(m, children, m[children - SizeT] * 2))
            ELSE AllocNode(m, parent_node, children, name, is_file, t)
        Named(parent_node, new_node_name, ex) ==           \* lines 793-806
            IF ex.fault # "none" THEN MkRes(m, NULL, "none", ex.fault)
            ELSE IF ex.node # NULL THEN MkRes(m, NULL, "EEXIST", "none")
            ELSE IF Len(new_node_name) = 0 THEN MkRes(m, NULL, "ENOENT", "none")
            ELSE IF Len(new_node_name) > NAME_MAX_LEN
            THEN MkRes(m, NULL, "ENAMETOOLONG", "none")
            ELSE Placed(parent_node, new_node_name,
                        offset_to_pointer(m[parent_node + OffValue1]))
        Resolved(pr) ==                                    \* lines 770-789
            IF pr.fault # "none" THEN MkRes(m, NULL, "none", pr.fault)
            ELSE IF pr.node = NULL THEN MkRes(m, NULL, "ENOENT", "none")
            ELSE IF ~InodeAt(pr.node)
            THEN MkRes(m, NULL, "none", "inode outside the region")
            ELSE IF TypeOf(m, pr.node) # 2 THEN MkRes(m, NULL, "ENOTDIR", "none")
            ELSE Named(pr.node, get_last_token(path),
                       get_node(m, pr.node, get_last_token(path)))
    IN  Resolved(resolve_path(m, path, 1))

---------------------------------------------------------------------------
(* File content chunks.  A file_block_t at offset b keeps size at b,       *)
(* allocated at b + 8, next at b + 16 and data at b + 24.                  *)

OffAllocated == 8
OffBlkNext   == 16
OffData      == 24

FileBlockAt(b) == b \in Addrs /\ b + OffData \in Addrs

\* no chain of file blocks in the region is longer: a longer walk goes round
MaxChain == FsSize \div (FileBlockSize + SizeT)

UMin(a, b) == IF ULt(a, b) THEN a ELSE b

\* memset(fsptr + addr, 0, n): bytes addr .. addr + n - 1 of the region
ZeroBytes(m, addr, n) ==
    [a \in Addrs |->
        IF a + SizeT <= addr \/ addr + n <= a THEN m[a]
        ELSE IF addr <= a /\ a + SizeT <= addr + n THEN 0
        ELSE LET k1 == IF addr > a THEN addr - a ELSE 0
                 k2 == IF addr + n < a + SizeT THEN addr + n - a ELSE SizeT
                 lo == IF k1 >= 4 THEN m[a] ELSE m[a] % (256 ^ k1)
                 hi == IF k2 >= 4 THEN 0 ELSE (m[a] \div (256 ^ k2)) * (256 ^ k2)
             IN  lo + hi]

\* the bytes lie in the region; a word zeroed in part is kept non-negative
MemsetOk(m, addr, n) ==
    /\ addr >= 0 /\ n >= 0 /\ addr + n <= FsSize
    /\ \A a \in Addrs :
          (a < addr + n /\ addr < a + SizeT
             /\ ~(addr <= a /\ a + SizeT <= addr + n)) => m[a] >= 0

DataRes(m, ret, err, flt) == [m |-> m, ret |-> ret, err |-> err, fault |-> flt]

RECURSIVE FreeChain(_, _, _)
\* remove_data's second loop: release every block after the cut
FreeChain(m, block, fuel) ==
    IF block = 0 THEN [m |-> m, fault |-> "none"]
    ELSE IF fuel = 0 THEN [m |-> m, fault |-> "walk does not end"]
    ELSE IF ~FileBlockAt(block) THEN [m |-> m, fault |-> "block outside the region"]
    ELSE LET BlockFreed(next_block, f2) ==
                 IF f2.fault # "none" THEN f2
                 ELSE FreeChain(f2.m, next_block, fuel - 1)
             DataFreed(f1) ==
                 IF f1.fault # "none" THEN f1
                 ELSE BlockFreed(offset_to_pointer(f1.m[block + OffBlkNext]),
                                 FsFree(f1.m, block))
         IN  DataFreed(FsFree(m, offset_to_pointer(m[block + OffData])))

RECURSIVE CutPoint(_, _, _, _)
\* remove_data's first loop: the block and index where the file is cut
CutPoint(m, block, size, fuel) ==
    IF size = 0 THEN [block |-> block, idx |-> 0, fault |-> "none"]
    ELSE IF fuel = 0 THEN [block |-> block, idx |-> 0, fault |-> "walk does not end"]
    ELSE IF ~FileBlockAt(block)
    THEN [block |-> block, idx |-> 0, fault |-> "block outside the region"]
    ELSE IF ULt(m[block + OffAllocated], size)
    THEN CutPoint(m, offset_to_pointer(m[block + OffBlkNext]),
                  size - m[block + OffAllocated], fuel - 1)
    ELSE [block |-> block, idx |-> size, fault |-> "none"]

remove_data(m, block, size) ==
    IF block = NULL THEN [m |-> m, fault |-> "none"]
    ELSE
    LET TailFreed(c, f) ==                                 \* lines 910-924
            IF f.fault # "none" THEN f
            ELSE FreeChain(f.m, offset_to_pointer(f.m[c.block + OffBlkNext]),
                           MaxChain)
        HeaderAt(c, data, header) ==                       \* lines 903-906
            IF data = NULL \/ header \notin Addrs
            THEN [m |-> m, fault |-> "store outside the region or misaligned"]
            ELSE FsFree([m EXCEPT ![header] =
                             m[c.block + OffAllocated] - c.idx - SizeT],
                        header + SizeT)
        Cut(c) ==                                          \* lines 902-908
            IF c.fault # "none" THEN [m |-> m, fault |-> c.fault]
            ELSE IF ~FileBlockAt(c.block)
            THEN [m |-> m, fault |-> "block outside the region"]
            ELSE IF ULt(c.idx + DataBlockSize, m[c.block + OffAllocated])
            THEN TailFreed(c, HeaderAt(c, offset_to_pointer(m[c.block + OffData]),
                                       offset_to_pointer(m[c.block + OffData]) + c.idx))
            ELSE TailFreed(c, [m |-> m, fault |-> "none"])
    IN  Cut(CutPoint(m, block, size, MaxChain))

malloc_file_block(m) ==
    LET Made(r) ==
            IF r.fault # "none"
            THEN [m |-> r.m, block |-> NULL, err |-> "none", fault |-> r.fault]
            ELSE IF r.ptr = NULL
            THEN [m |-> r.m, block |-> NULL, err |-> "ENOSPC", fault |-> "none"]
            ELSE IF ~MemsetOk(r.m, r.ptr, FileBlockSize)
            THEN [m |-> r.m, block |-> NULL, err |-> "none",
                  fault |-> "memset outside the region"]
            ELSE [m |-> ZeroBytes(r.m, r.ptr, FileBlockSize), block |-> r.ptr,
                  err |-> "none", fault |-> "none"]
    IN  Made(FsMalloc(m, FileBlockSize))

\* append_data_block and extend_block_with_zeros: the bytes appended, or a fault
AppendZeros(m, block, size) ==
    LET Zeroed(m1, append_size) ==
            [m |-> [m1 EXCEPT ![block + OffAllocated] =
                                  m1[block + OffAllocated] + append_size],
             n |-> append_size, fault |-> "none"]
        Sized(append_size, data, at) ==
            IF append_size = 0 THEN [m |-> m, n |-> 0, fault |-> "none"]
            ELSE IF data = NULL \/ ~MemsetOk(m, at, append_size)
            THEN [m |-> m, n |-> 0, fault |-> "memset outside the region"]
            ELSE Zeroed(ZeroBytes(m, at, append_size), append_size)
    IN  Sized(UMin(size, m[block] - m[block + OffAllocated]),
              offset_to_pointer(m[block + OffData]),
              offset_to_pointer(m[block + OffData]) + m[block + OffAllocated])

RECURSIVE free_file_blocks(_, _, _)
\* offset_to_pointer never gives NULL for the terminator 0: the walk goes on
\* with block = fsptr and free_impl(fsptr, fsptr) reads below the region
free_file_blocks(m, block, fuel) ==
    IF block = NULL THEN [m |-> m, fault |-> "none"]
    ELSE IF fuel = 0 THEN [m |-> m, fault |-> "walk does not end"]
    ELSE IF block = 0
    THEN [m |-> m, fault |-> "free_file_blocks continues at offset 0"]
    ELSE IF ~FileBlockAt(block) THEN [m |-> m, fault |-> "block outside the region"]
    ELSE LET Freed(next_block, f) ==
                 IF f.fault # "none" THEN f
                 ELSE free_file_blocks(f.m, next_block, fuel - 1)
         IN  Freed(offset_to_pointer(m[block + OffBlkNext]), FsFree(m, block))

RECURSIVE AppendBlocks(_, _, _, _, _)
\* add_data's last loop: append blocks until all data is added
AppendBlocks(m, file, prev_block, size, fuel) ==
    IF size = 0 THEN DataRes(m, 0, "none", "none")
    ELSE IF fuel = 0 THEN DataRes(m, 0, "none", "walk does not end")
    ELSE
    LET Freed(f) == DataRes(f.m, -1, "ENOSPC", f.fault)
        Linked(m1, block) ==                               \* lines 1014-1017
            AppendBlocks(m1, file, block, size - m1[block + OffAllocated], fuel - 1)
        Appended(block, a) ==                              \* lines 1010-1013
            IF a.fault # "none" THEN DataRes(a.m, -1, "none", a.fault)
            ELSE IF ULt(a.n, size)
            THEN Freed(free_file_blocks(a.m, offset_to_pointer(a.m[file + SizeT]),
                                        MaxChain))
            ELSE Linked(IF prev_block # NULL
                        THEN [a.m EXCEPT ![prev_block + OffBlkNext] =
                                             pointer_to_offset(block)]
                        ELSE a.m,
                        block)
        Made(b) ==                                         \* lines 1007-1009
            IF b.fault # "none" THEN DataRes(b.m, -1, b.err, b.fault)
            ELSE IF b.block = NULL THEN DataRes(b.m, -1, b.err, "none")
            ELSE Appended(b.block, AppendZeros(b.m, b.block, size))
    IN  Made(malloc_file_block(m))

RECURSIVE ExtendChain(_, _, _, _, _)
\* add_data's loop over the blocks that have a successor
ExtendChain(m, file, block, size, fuel) ==
    IF fuel = 0 THEN DataRes(m, 0, "none", "walk does not end")
    ELSE IF ~FileBlockAt(block) THEN DataRes(m, 0, "none", "block outside the region")
    ELSE IF m[block + OffBlkNext] = 0
    THEN AppendBlocks(m, file, NULL, size, MaxChain)
    ELSE LET Extended(want, a) ==
                 IF a.fault # "none" THEN DataRes(a.m, -1, "none", a.fault)
                 ELSE IF a.n # want THEN DataRes(a.m, -1, "none", "none")
                 ELSE IF size - want = 0 THEN DataRes(a.m, 0, "none", "none")
                 ELSE ExtendChain(a.m, file,
                                  offset_to_pointer(a.m[block + OffBlkNext]),
                                  size - want, fuel - 1)
             Wanted(want) == Extended(want, AppendZeros(m, block, want))
         IN  Wanted(UMin(size, m[block] - m[block + OffAllocated]))

\* file: offset of the inode's value union (size at file, first_block at file + 8)
add_data(m, file, size) ==
    LET First(block_size, b, a) ==                         \* lines 986-989
            IF a.fault # "none" THEN DataRes(a.m, -1, "none", a.fault)
            ELSE IF ULt(a.n, block_size) THEN DataRes(a.m, -1, "ENOSPC", "none")
            ELSE AppendBlocks(a.m, file, NULL, size - block_size, MaxChain)
        Made(b) ==                                         \* lines 980-987
            IF b.fault # "none" THEN DataRes(b.m, -1, b.err, b.fault)
            ELSE IF b.block = NULL THEN DataRes(b.m, -1, b.err, "none")
            ELSE First(UMin(size, BLOCK_SIZE), b,
                       AppendZeros([b.m EXCEPT ![file + SizeT] =
                                                   pointer_to_offset(b.block)],
                                   b.block, UMin(size, BLOCK_SIZE)))
        From(block) ==                                     \* lines 979-1003
            IF block = 0 THEN Made(malloc_file_block(m))
            ELSE IF block = NULL
            THEN DataRes(m, -1, "none", "block outside the region")
            ELSE ExtendChain(m, file, block, size, MaxChain)
    IN  From(offset_to_pointer(m[file + SizeT]))

---------------------------------------------------------------------------
(* The entry points.  Each result carries the region, the value returned,  *)
(* the error written to *errnoptr ("none" if none was written) and the     *)
(* undefined behaviour met, if any.                                        *)

CallRes(m, ret, err, flt) ==
    [m |-> m, ret |-> ret, err |-> err, fault |-> flt, st |-> NoStat,
     names |-> <<>>]

RECURSIVE CountSubdirs(_, _, _, _)
\* getattr's loop over slots i .. num_children - 1: the subdirectories, or -1
\* when a slot or the inode it names lies outside the region
CountSubdirs(m, children, nc, i) ==
    IF ~ULt(i, nc) THEN 0
    ELSE IF children = NULL \/ children + SizeT * i \notin Addrs THEN -1
    ELSE LET child_node == offset_to_pointer(m[children + SizeT * i]) IN
         IF ~InodeAt(child_node) THEN -1
         ELSE LET rest == CountSubdirs(m, children, nc, i + 1) IN
              IF rest < 0 THEN -1
              ELSE rest + (IF TypeOf(m, child_node) = 2 THEN 1 ELSE 0)

myfs_getattr_implem(m0, fssize, path, t) ==
    LET Counted(m, n) ==                                   \* lines 1053-1062
            IF n < 0 THEN CallRes(m, 0, "none", "child outside the region")
            ELSE [CallRes(m, 0, "none", "none") EXCEPT
                     !.st = [NoStat EXCEPT
                                !.written = {"uid", "gid", "mode", "nlink"},
                                !.mode = S_IFDIR, !.nlink = 2 + n]]
        Resolved(m, r) ==                                  \* lines 1034-1063
            IF r.fault # "none" THEN CallRes(m, 0, "none", r.fault)
            ELSE IF r.node = NULL THEN CallRes(m, -1, "ENOENT", "none")
            ELSE IF ~InodeAt(r.node)
            THEN CallRes(m, 0, "none", "inode outside the region")
            ELSE IF TypeOf(m, r.node) = 1
            THEN [CallRes(m, 0, "none", "none") EXCEPT
                     !.st = [written |-> {"uid", "gid", "mode", "nlink", "size",
                                          "atime", "mtime"},
                             mode  |-> S_IFREG,
                             nlink |-> 1,
                             size  |-> m[r.node + OffValue0],
                             atime |-> m[r.node + OffTime0],
                             mtime |-> m[r.node + OffTime1]]]
            ELSE Counted(m, CountSubdirs(m, offset_to_pointer(m[r.node + OffValue1]),
                                         m[r.node + OffValue0], 1))
        Mounted(m) == Resolved(m, resolve_path(m, path, 0))
    IN  Mounted(mount_filesystem(m0, fssize, t))

RECURSIVE ChildNames(_, _, _, _)
\* readdir's loop over slots i .. n_children - 1: the names copied out; ok is
\* FALSE when a slot or the inode it names lies outside the region
ChildNames(m, children, nc, i) ==
    IF ~ULt(i, nc) THEN [ok |-> TRUE, names |-> <<>>]
    ELSE IF children = NULL \/ children + SizeT * i \notin Addrs
    THEN [ok |-> FALSE, names |-> <<>>]
    ELSE LET node == offset_to_pointer(m[children + SizeT * i]) IN
         IF ~InodeAt(node) THEN [ok |-> FALSE, names |-> <<>>]
         ELSE LET rest == ChildNames(m, children, nc, i + 1) IN
              [ok |-> rest.ok, names |-> <<NameOf(m, node)>> \o rest.names]

myfs_readdir_implem(m0, fssize, path, t) ==
    LET Listed(m, n_children, names) ==                    \* lines 1110-1119
            IF ~names.ok THEN CallRes(m, 0, "none", "child outside the region")
            ELSE [CallRes(m, n_children - 1, "none", "none") EXCEPT
                     !.names = names.names]
        Resolved(m, r) ==                                  \* lines 1077-1105
            IF r.fault # "none" THEN CallRes(m, 0, "none", r.fault)
            ELSE IF r.node = NULL THEN CallRes(m, -1, "ENOENT", "none")
            ELSE IF ~InodeAt(r.node)
            THEN CallRes(m, 0, "none", "inode outside the region")
            ELSE IF TypeOf(m, r.node) # 2 THEN CallRes(m, -1, "ENOTDIR", "none")
            ELSE IF m[r.node + OffValue0] = 1 THEN CallRes(m, 0, "none", "none")
            ELSE IF m[r.node + OffValue0] = 0   \* calloc of a wrapped count: NULL
            THEN CallRes(m, -1, "EINVAL", "none")
            ELSE Listed(m, m[r.node + OffValue0],
                        ChildNames(m, offset_to_pointer(m[r.node + OffValue1]),
                                   m[r.node + OffValue0], 1))
        Mounted(m) == Resolved(m, resolve_path(m, path, 0))
    IN  Mounted(mount_filesystem(m0, fssize, t))

\* lines 1131-1135 and 1186-1190: make_node's result becomes the return value
CreateRes(r) ==
    IF r.fault # "none" THEN CallRes(r.m, 0, "none", r.fault)
    ELSE IF r.node = NULL THEN CallRes(r.m, -1, r.err, "none")
    ELSE CallRes(r.m, 0, "none", "none")

myfs_mknod_implem(m0, fssize, path, t) ==
    CreateRes(make_node(mount_filesystem(m0, fssize, t), path, 1, t))

myfs_mkdir_implem(m0, fssize, path, t) ==
    CreateRes(make_node(mount_filesystem(m0, fssize, t), path, 0, t))

\* mutant: the path is resolved before the sign of the length is looked at
truncate_resolves_first(m0, fssize, path, offset, t) ==
    LET Resolved(m, r) ==
            IF r.fault # "none" THEN CallRes(m, 0, "none", r.fault)
            ELSE IF r.node = NULL THEN CallRes(m, -1, "ENOENT", "none")
            ELSE IF offset < 0 THEN CallRes(m, -1, "EFAULT", "none")
            ELSE CallRes(m, -1, "EISDIR", "none")
        Mounted(m) == Resolved(m, resolve_path(m, path, 0))
    IN  Mounted(mount_filesystem(m0, fssize, t))

myfs_truncate_implem(m0, fssize, path, offset, t) ==
    LET Removed(d) == CallRes(d.m, 0, "none", d.fault)
        Added(d) ==
            IF d.fault # "none" THEN CallRes(d.m, 0, "none", d.fault)
            ELSE IF d.ret # 0 THEN CallRes(d.m, -1, d.err, "none")
            ELSE CallRes(d.m, 0, "none", "none")
        Sized(m, node, file, new_size) ==                  \* lines 1243-1271
            IF m[file] = new_size
            THEN CallRes(update_time(m, node, 0, t), 0, "none", "none")
            ELSE IF ULt(new_size, m[file])
            THEN Removed(remove_data(
                     [update_time(m, node, 1, t) EXCEPT ![file] = new_size],
                     offset_to_pointer(m[file + SizeT]), new_size))
            ELSE Added(add_data(update_time(m, node, 1, t), file, new_size))
        Resolved(m, r) ==                                  \* lines 1229-1241
            IF r.fault # "none" THEN CallRes(m, 0, "none", r.fault)
            ELSE IF r.node = NULL THEN CallRes(m, -1, "ENOENT", "none")
            ELSE IF ~InodeAt(r.node)
            THEN CallRes(m, 0, "none", "inode outside the region")
            ELSE IF TypeOf(m, r.node) = 1 THEN CallRes(m, -1, "EISDIR", "none")
            ELSE Sized(m, r.node, r.node + OffValue0, offset)
        Mounted(m) ==                                      \* lines 1218-1226
            IF offset < 0 THEN CallRes(m, -1, "EFAULT", "none")
            ELSE Resolved(m, resolve_path(m, path, 0))
    IN  Mounted(mount_filesystem(m0, fssize, t))

\* unlink, rmdir, rename, open, read, write, utimens and statfs: the region
\* and *errnoptr are left alone
myfs_stub_implem(m0) == CallRes(m0, -1, "none", "none")

---------------------------------------------------------------------------
(* The file system: the entry points called one after the other on a       *)
(* region that starts zeroed, with a clock that never runs backwards.      *)

PathRoot == <<SLASH>>
PathA    == <<SLASH, 97>>
PathB    == <<SLASH, 98>>
PathC    == <<SLASH, 99>>
PathD    == <<SLASH, 100>>
PathAA   == <<SLASH, 97, SLASH, 97>>

Paths == {PathRoot, PathA, PathB, PathC, PathD, PathAA}
MknodPaths == {PathB, PathC, PathD, PathAA}
MkdirPaths == {PathA}
TruncPaths == {PathRoot, PathB}
StatPaths == {PathRoot, PathB}
StubPaths == {PathA}
TruncLens == {-1, 0, 8}

Init ==
    /\ mem = ZeroRegion
    /\ now = 1
    /\ live = {}
    /\ fault = "none"
    /\ calls = 0
    /\ last = NoCall

\* Host-heap blocks (malloc, not the region) a call leaves unreleased.
\* tokenize allocates the array and one string per token; free_tokens
\* releases every string up to the terminating NULL and the array.
HostTokenize(path, skip_n_tokens) ==
    1 + Len(tokenize(SLASH, path, skip_n_tokens))

HostFreeTokens(tokens) == Len(tokens) + 1

\* resolve_path: nothing is allocated before the two early returns (lines
\* 728-738); each of the three later exits calls free_tokens (748, 757, 762)
HostResolvePath(path, skip_n_tokens) ==
    IF path = <<>> \/ Head(path) # SLASH \/ Len(path) = 1 THEN 0
    ELSE HostTokenize(path, skip_n_tokens)
           - HostFreeTokens(tokenize(SLASH, path, skip_n_tokens))

\* make_node: past the two parent checks get_last_token allocates the copy
\* of the basename (line 789), which no exit of make_node releases
HostMakeNode(m, path) ==
    LET Resolved(pr) ==
            IF pr.fault # "none" \/ pr.node = NULL \/ ~InodeAt(pr.node) THEN 0
            ELSE IF TypeOf(m, pr.node) # 2 THEN 0
            ELSE 1
    IN  HostResolvePath(path, 1) + Resolved(resolve_path(m, path, 1))

\* the blocks still allocated when the entry point returns, the array and
\* the strings readdir hands to its caller apart
HostUnreleased(op, m0, path, arg) ==
    CASE op \in {"mknod", "mkdir"} ->
           HostMakeNode(mount_filesystem(m0, FsSize, 1), path)
      [] op \in {"getattr", "readdir"} -> HostResolvePath(path, 0)
      [] op = "truncate" -> IF arg < 0 THEN 0 ELSE HostResolvePath(path, 0)
      [] OTHER -> 0

\* the call op(path, arg) found the region as mem and ended as r tells; at
\* most bound calls change the region
CallWithin(op, path, arg, r, bound) ==
    /\ r.m # mem => calls < bound
    /\ mem' = r.m
    /\ fault' = r.fault
    /\ calls' = IF r.m # mem THEN calls + 1 ELSE calls
    /\ last' = [NoCall EXCEPT !.op = op, !.path = path, !.arg = arg,
                              !.done = (r.fault = "none"), !.ret = r.ret,
                              !.err = r.err, !.mem0 = mem, !.st = r.st,
                              !.names = r.names,
                              !.host = HostUnreleased(op, mem, path, arg)]
    /\ UNCHANGED <<now, live>>

Call(op, path, arg, r) == CallWithin(op, path, arg, r, MaxWrites)

Getattr(p) ==
    /\ fault = "none"
    /\ Call("getattr", p, 0, myfs_getattr_implem(mem, FsSize, p, now))

Readdir(p) ==
    /\ fault = "none"
    /\ Call("readdir", p, 0, myfs_readdir_implem(mem, FsSize, p, now))

Mknod(p) ==
    /\ fault = "none"
    /\ Call("mknod", p, 0, myfs_mknod_implem(mem, FsSize, p, now))

Mkdir(p) ==
    /\ fault = "none"
    /\ Call("mkdir", p, 0, myfs_mkdir_implem(mem, FsSize, p, now))

Truncate(p, n) ==
    /\ fault = "none"
    /\ Call("truncate", p, n, myfs_truncate_implem(mem, FsSize, p, n, now))

Unlink(p) ==
    /\ fault = "none"
    /\ Call("unlink", p, 0, myfs_stub_implem(mem))

Rmdir(p) ==
    /\ fault = "none"
    /\ Call("rmdir", p, 0, myfs_stub_implem(mem))

Rename(p, q) ==
    /\ fault = "none"
    /\ Call("rename", p, 0, myfs_stub_implem(mem))

Open(p) ==
    /\ fault = "none"
    /\ Call("open", p, 0, myfs_stub_implem(mem))

Read(p) ==
    /\ fault = "none"
    /\ Call("read", p, 0, myfs_stub_implem(mem))

Write(p) ==
    /\ fault = "none"
    /\ Call("write", p, 0, myfs_stub_implem(mem))

Utimens(p) ==
    /\ fault = "none"
    /\ Call("utimens", p, 0, myfs_stub_implem(mem))

Statfs ==
    /\ fault = "none"
    /\ Call("statfs", <<>>, 0, myfs_stub_implem(mem))

\* the clock read by update_time advances between calls
Tick ==
    /\ fault = "none"
    /\ now < MaxClock
    /\ now' = now + 1
    /\ UNCHANGED <<mem, live, fault, calls, last>>

Next ==
    \/ \E p \in StatPaths : Getattr(p)
    \/ \E p \in StatPaths : Readdir(p)
    \/ \E p \in MknodPaths : Mknod(p)
    \/ \E p \in MkdirPaths : Mkdir(p)
    \/ \E p \in TruncPaths, n \in TruncLens : Truncate(p, n)
    \/ \E p \in StubPaths : Unlink(p)
    \/ \E p \in StubPaths : Rmdir(p)
    \/ \E p \in StubPaths, q \in StubPaths : Rename(p, q)
    \/ \E p \in StubPaths : Open(p)
    \/ \E p \in StubPaths : Read(p)
    \/ \E p \in StubPaths : Write(p)
    \/ \E p \in StubPaths : Utimens(p)
    \/ Statfs
    \/ Tick

Spec == Init /\ [][Next]_vars

---------------------------------------------------------------------------
(* Creates alone: mknod and mkdir called one after the other on a region   *)
(* that starts zeroed, with the paths that reach each check of make_node   *)
(* and enough calls to fill the region.                                    *)

PathAB     == <<SLASH, 97, SLASH, 98>>
PathBX     == <<SLASH, 98, SLASH, 120>>          \* below /b, a regular file
PathXB     == <<SLASH, 120, SLASH, 98>>          \* below /x, never created
PathASlash == <<SLASH, 97, SLASH>>               \* an empty basename
Long255    == <<SLASH>> \o [i \in 1 .. NAME_MAX_LEN |-> 97]
Long256    == <<SLASH>> \o [i \in 1 .. NAME_MAX_LEN + 1 |-> 97]

CreateFilePaths == {PathB, PathC, PathAA, PathBX, PathXB, PathASlash,
                    Long255, Long256}
CreateDirPaths  == {PathA, PathAB, PathASlash}

CreateFile(p) ==
    /\ fault = "none"
    /\ CallWithin("mknod", p, 0, myfs_mknod_implem(mem, FsSize, p, now),
                  MaxCreates)

CreateDir(p) ==
    /\ fault = "none"
    /\ CallWithin("mkdir", p, 0, myfs_mkdir_implem(mem, FsSize, p, now),
                  MaxCreates)

NextCreate ==
    \/ \E p \in CreateFilePaths : CreateFile(p)
    \/ \E p \in CreateDirPaths : CreateDir(p)

SpecCreate == Init /\ [][NextCreate]_vars

---------------------------------------------------------------------------
(* Truncate: a file and a directory are created and truncate is called on  *)
(* them, on the root and on a path that does not exist, with a negative    *)
(* length, with lengths that fit and with one beyond the region.           *)

TruncAllPaths == {PathRoot, PathA, PathB, PathC}
TruncAllLens  == {-1, 0, 8, 2 * FsSize}

NextTrunc ==
    \/ \E p \in {PathB} : Mknod(p)
    \/ \E p \in {PathA} : Mkdir(p)
    \/ \E p \in TruncAllPaths, n \in TruncAllLens : Truncate(p, n)
    \/ Tick

SpecTrunc == Init /\ [][NextTrunc]_vars

---------------------------------------------------------------------------
(* add_data on its own: regular files are created and add_data is called   *)
(* on their inode_file_t as truncate's growing branch calls it, on a file  *)
(* that is empty and on one that already has a first block.                *)

MaxAdds == 5         \* add_data alone: calls that change the region

AddPaths == {PathB, PathC}
AddSizes == {8, BLOCK_SIZE, BLOCK_SIZE + 8}

AddData(p, n) ==
    /\ fault = "none"
    /\ LET Added(d) ==
               CallWithin("add_data", p, n, CallRes(d.m, d.ret, d.err, d.fault),
                          MaxAdds)
           Found(r) ==
               /\ r.fault = "none" /\ r.node # NULL /\ InodeAt(r.node)
               /\ TypeOf(mem, r.node) = 1
               /\ Added(add_data(mem, r.node + OffValue0, n))
       IN  Found(resolve_path(mem, p, 0))

AddFile(p) ==
    /\ fault = "none"
    /\ CallWithin("mknod", p, 0, myfs_mknod_implem(mem, FsSize, p, now), MaxAdds)

NextAddData ==
    \/ \E p \in AddPaths : AddFile(p)
    \/ \E p \in AddPaths, n \in AddSizes : AddData(p, n)
    \/ Tick

SpecAddData == Init /\ [][NextAddData]_vars

---------------------------------------------------------------------------
(* Path resolution: a directory, two files in the root and one below the   *)
(* directory are created, and getattr and readdir are called with paths    *)
(* that name them, that name nothing, that go through a regular file, that *)
(* use ".", ".." and empty tokens, and that do not start with '/'.         *)

PathX       == <<SLASH, 120>>                       \* never created
PathAX      == <<SLASH, 97, SLASH, 120>>            \* never created
PathBDot    == <<SLASH, 98, SLASH, DOT>>
PathBDotDot == <<SLASH, 98, SLASH, DOT, DOT>>
PathBSlash  == <<SLASH, 98, SLASH>>
PathADot    == <<SLASH, 97, SLASH, DOT>>
PathADotDot == <<SLASH, 97, SLASH, DOT, DOT>>
PathAUpB    == <<SLASH, 97, SLASH, DOT, DOT, SLASH, 98>>
PathRootUp  == <<SLASH, DOT, DOT>>
PathRel     == <<98>>                               \* no leading '/'
PathRelAA   == <<97, SLASH, 97>>                    \* no leading '/'

ResolveFilePaths == {PathB, PathC, PathAA}
ResolveDirPaths  == {PathA}
ResolvePaths ==
    {PathRoot, PathA, PathB, PathAA, PathX, PathAX, PathBX, PathBDot,
     PathBDotDot, PathBSlash, PathASlash, PathADot, PathADotDot, PathAUpB,
     PathRootUp, PathRel, PathRelAA}

NextResolve ==
    \/ \E p \in ResolveFilePaths : Mknod(p)
    \/ \E p \in ResolveDirPaths : Mkdir(p)
    \/ \E p \in ResolvePaths : Getattr(p)
    \/ \E p \in ResolvePaths : Readdir(p)

SpecResolve == Init /\ [][NextResolve]_vars

---------------------------------------------------------------------------
(* Creates whose basename is "." or "..", in the root and in a directory   *)
(* below it, next to creates with ordinary names, each followed by         *)
(* readdir of the two directories.                                         *)

PathDot == <<SLASH, DOT>>

DotFilePaths == {PathB, PathDot, PathRootUp}
DotDirPaths  == {PathA, PathADot, PathADotDot}
DotListPaths == {PathRoot, PathA}

NextDots ==
    \/ \E p \in DotFilePaths : Mknod(p)
    \/ \E p \in DotDirPaths : Mkdir(p)
    \/ \E p \in DotListPaths : Readdir(p)

SpecDots == Init /\ [][NextDots]_vars

---------------------------------------------------------------------------
(* The translation functions on their own, called with pointers below,     *)
(* inside and above the region and with offsets up to and beyond its       *)
(* length.  A pointer is kept as its distance from fsptr, negative when it *)
(* lies below fsptr; a negative offset o is the unsigned word 2^64 + o.    *)

PastEnd == 2         \* words beyond either end of the region that are tried

TransPointers == {NULL} \cup {SizeT * i : i \in (0 - PastEnd) .. ((FsSize \div SizeT) + PastEnd)}
TransOffsets  == {SizeT * i : i \in (0 - PastEnd) .. ((FsSize \div SizeT) + PastEnd)}

PointerToOffset(p) ==
    /\ last' = [NoCall EXCEPT !.op = "pointer_to_offset", !.arg = p,
                              !.ret = pointer_to_offset(p)]
    /\ UNCHANGED <<mem, now, live, fault, calls>>

OffsetToPointer(o) ==
    /\ last' = [NoCall EXCEPT !.op = "offset_to_pointer", !.arg = o,
                              !.ret = offset_to_pointer(o)]
    /\ UNCHANGED <<mem, now, live, fault, calls>>

NextTranslate ==
    \/ \E p \in TransPointers : PointerToOffset(p)
    \/ \E o \in TransOffsets : OffsetToPointer(o)

SpecTranslate == InitAlloc /\ [][NextTranslate]_vars

---------------------------------------------------------------------------
(* Attributes: files and directories are created in the root and one level *)
(* below it, until the region is full, and getattr is called on the root,  *)
(* on a directory, on a file in each of them and on a missing path.        *)

StatFilePaths == {PathB, PathC, PathD, PathAA}
StatDirPaths  == {PathA, PathAB}
StatAllPaths  == {PathRoot, PathA, PathB, PathAA, PathD}

NextStat ==
    \/ \E p \in StatFilePaths : CreateFile(p)
    \/ \E p \in StatDirPaths : CreateDir(p)
    \/ \E p \in StatAllPaths : Getattr(p)
    \/ Tick

SpecStat == Init /\ [][NextStat]_vars

---------------------------------------------------------------------------
(* Data and names: a file and directories are created and write, read,     *)
(* rename and rmdir are called on them with their full arguments.          *)

\* lines 1342-1346 and 1321-1325: neither the region, the buffer nor
\* *errnoptr is touched; buf is the caller's buffer after the call
myfs_write_implem(m0, fssize, path, buf, size, offset) ==
    [m |-> m0, ret |-> -1, err |-> "none", fault |-> "none", st |-> NoStat,
     names |-> <<>>, buf |-> buf]

myfs_read_implem(m0, fssize, path, buf, size, offset) ==
    [m |-> m0, ret |-> -1, err |-> "none", fault |-> "none", st |-> NoStat,
     names |-> <<>>, buf |-> buf]

\* lines 1210-1214 and 1171-1175
myfs_rename_implem(m0, fssize, from, to) == CallRes(m0, -1, "none", "none")

myfs_rmdir_implem(m0, fssize, path) == CallRes(m0, -1, "none", "none")

\* a call with a buffer, an offset or a second path among its arguments
CallArgs(op, path, arg, r, buf, off, to) ==
    /\ mem' = r.m
    /\ fault' = r.fault
    /\ calls' = IF r.m # mem THEN calls + 1 ELSE calls
    /\ last' = [NoCall EXCEPT !.op = op, !.path = path, !.arg = arg,
                              !.done = (r.fault = "none"), !.ret = r.ret,
                              !.err = r.err, !.mem0 = mem,
                              !.buf = buf, !.off = off, !.to = to]
    /\ UNCHANGED <<now, live>>

\* the caller's buffer before a read: bytes no write ever stores
Stale == 7

DataPaths == {PathA, PathB}
DataBufs  == {<<1>>, <<1, 2>>}
DataOffs  == {0, 1}
RenameFrom == {PathA, PathB, PathAA}
RenameTo   == {PathC, PathAB}
RmdirPaths == {PathA, PathAB, PathB}

WriteAt(p, buf, off) ==
    /\ fault = "none"
    /\ CallArgs("write", p, Len(buf),
                myfs_write_implem(mem, FsSize, p, buf, Len(buf), off),
                buf, off, <<>>)

ReadAt(p, size, off) ==
    /\ fault = "none"
    /\ LET Returned(r) == CallArgs("read", p, size, r, r.buf, off, <<>>)
       IN  Returned(myfs_read_implem(mem, FsSize, p, [i \in 1 .. size |-> Stale],
                                     size, off))

RenameAs(p, q) ==
    /\ fault = "none"
    /\ CallArgs("rename", p, 0, myfs_rename_implem(mem, FsSize, p, q),
                <<>>, 0, q)

RemoveDir(p) ==
    /\ fault = "none"
    /\ CallArgs("rmdir", p, 0, myfs_rmdir_implem(mem, FsSize, p), <<>>, 0, <<>>)

NextData ==
    \/ \E p \in {PathB, PathAA} : Mknod(p)
    \/ \E p \in {PathA, PathAB} : Mkdir(p)
    \/ \E p \in DataPaths, buf \in DataBufs, off \in DataOffs : WriteAt(p, buf, off)
    \/ \E p \in DataPaths, size \in {1, 2}, off \in DataOffs : ReadAt(p, size, off)
    \/ \E p \in RenameFrom, q \in RenameTo : RenameAs(p, q)
    \/ \E p \in RmdirPaths : RemoveDir(p)

SpecData == Init /\ [][NextData]_vars

---------------------------------------------------------------------------
(* The allocator on a fragmented region: the state reached from the first  *)
(* mount by malloc_impl of 16, 16, 248, 504, 248 and 104 bytes, free_impl  *)
(* of the last two, malloc_impl of 704 bytes, then free_impl of the first  *)
(* and the third block.  The second, fourth and seventh blocks are live.   *)

FragRegion ==
    LET F4(x, d, c, f3, b) ==
            [m |-> free_impl(f3, b), live |-> {x, d, c}]
        F3(a, b, x, d, rC) ==
            F4(x, d, rC.ptr, free_impl(rC.m, a), b)
        F2(a, b, x, d, e1, f1) ==
            F3(a, b, x, d, malloc_impl(free_impl(f1, e1), 704))
        E2(a, b, x, d, e1, rE2) ==
            F2(a, b, x, d, e1, free_impl(rE2.m, rE2.ptr))
        E1(a, b, x, d, rE1) ==
            E2(a, b, x, d, rE1.ptr, malloc_impl(rE1.m, 104))
        D(a, b, x, rD) == E1(a, b, x, rD.ptr, malloc_impl(rD.m, 248))
        B(a, x, rB) == D(a, rB.ptr, x, malloc_impl(rB.m, 504))
        X(a, rX) == B(a, rX.ptr, malloc_impl(rX.m, 248))
        A(rA) == X(rA.ptr, malloc_impl(rA.m, 16))
    IN  A(malloc_impl(mount_filesystem(ZeroRegion, FsSize, 1), 16))

InitAllocFrag ==
    /\ mem = FragRegion.m
    /\ now = 1
    /\ live = FragRegion.live
    /\ fault = "none"
    /\ calls = 0
    /\ last = NoCall

SpecAllocFrag == InitAllocFrag /\ [][NextAlloc]_vars

---------------------------------------------------------------------------
(* The allocator asked for small sizes: requests below the size of a       *)
(* free-block header, and blocks resized to fewer bytes than they hold.    *)

MinAllocSizes   == {8, 32, 48}
MinReallocSizes == {8, 24, 40}

NextAllocMin ==
    \/ \E n \in MinAllocSizes : AMalloc(n)
    \/ \E p \in live : AFree(p)
    \/ \E p \in live, n \in MinReallocSizes : ARealloc(p, n)

SpecAllocMin == InitAlloc /\ [][NextAllocMin]_vars

---------------------------------------------------------------------------
(* The directory tree as the region holds it *)

IsMounted(m) == m[OffMagic] = MAGIC_NUMBER

RootOf(m) == offset_to_pointer(m[OffRootDir])

\* slot i of directory d lies in the region
SlotAt(m, d, i) ==
    /\ offset_to_pointer(m[d + OffValue1]) # NULL
    /\ offset_to_pointer(m[d + OffValue1]) + SizeT * i \in Addrs

Slot(m, d, i) == m[offset_to_pointer(m[d + OffValue1]) + SizeT * i]

\* the indices 1 .. num_children - 1 of directory d
ChildSlots(m, d) == 1 .. (m[d + OffValue0] - 1)

\* no directory lies deeper than this in a region that holds so few inodes
TreeDepth == 3

RECURSIVE DirsBelow(_, _, _)
\* the directories reached from d through slots 1 .. num_children - 1
DirsBelow(m, d, depth) ==
    IF depth = 0 \/ ~InodeAt(d) THEN {d}
    ELSE {d} \cup UNION {DirsBelow(m, Slot(m, d, i), depth - 1) :
                           i \in {j \in ChildSlots(m, d) :
                                    /\ SlotAt(m, d, j)
                                    /\ InodeAt(Slot(m, d, j))
                                    /\ TypeOf(m, Slot(m, d, j)) = 2}}

\* the slots 1 .. num_children - 1 of every directory reached from the root
TreeSlots(m) ==
    {s \in DirsBelow(m, RootOf(m), TreeDepth) \X (1 .. Cardinality(Addrs)) :
        InodeAt(s[1]) /\ s[2] \in ChildSlots(m, s[1])}

\* the block [p - SizeT, p + n) shares no byte with a block of the free list
OffFreeList(m, p, n) ==
    \A b \in Range(FreeList(m)) :
        p + n <= b.off \/ b.off + SizeT + b.remaining <= p - SizeT

\* the file-type bits of a mode: mode & S_IFMT
FileType(mode) == (mode \div 4096) * 4096

\* the last call was a create that returned 0
Created == last.op \in {"mknod", "mkdir"} /\ last.done /\ last.ret = 0

\* the region as the last call found it, once it had mounted it
PreRegion == mount_filesystem(last.mem0, FsSize, 1)

\* the parent directory make_node resolved in the last call
PreParent == resolve_path(PreRegion, last.path, 1).node

\* the inode make_node allocated in the last call
NewNode ==
    make_node(PreRegion, last.path, IF last.op = "mknod" THEN 1 ELSE 0, 1).node

---------------------------------------------------------------------------
(* Claims *)

\* C1: whenever mknod(p) or mkdir(p) returns 0, p resolves to the new inode
\* (getattr(p) succeeds: a regular file of size 0 with nlink 1 for mknod, a
\* directory with nlink 2 for mkdir), the parent's num_children has grown by
\* exactly one with the new inode's offset in the slot that was last plus
\* one, and every path that resolved before the call resolves to the same inode.
C1_CreatePostconditions ==
    Created =>
      LET new == resolve_path(mem, last.path, 0)
          ga  == myfs_getattr_implem(mem, FsSize, last.path, now)
          old == PreRegion[PreParent + OffValue0]
      IN  /\ new.fault = "none" /\ new.node # NULL
          /\ new.node = NewNode
          /\ ga.fault = "none" /\ ga.ret = 0
          /\ last.op = "mknod" =>
                /\ FileType(ga.st.mode) = S_IFREG /\ ga.st.nlink = 1
                /\ "size" \in ga.st.written /\ ga.st.size = 0
          /\ last.op = "mkdir" =>
                FileType(ga.st.mode) = S_IFDIR /\ ga.st.nlink = 2
          /\ mem[PreParent + OffValue0] = old + 1
          /\ SlotAt(mem, PreParent, old)
          /\ Slot(mem, PreParent, old) = new.node
          /\ \A q \in Paths :
                LET was == resolve_path(PreRegion, q, 0)
                IN  (was.fault = "none" /\ was.node # NULL)
                       => resolve_path(mem, q, 0) = was

\* the last call was a create that passed make_node's checks and found its
\* parent directory with num_children equal to the capacity of its table
CreateOnFullTable ==
    /\ last.op \in {"mknod", "mkdir"}
    /\ LET pr == resolve_path(PreRegion, last.path, 1) IN
       /\ pr.fault = "none" /\ pr.node # NULL /\ InodeAt(pr.node)
       /\ TypeOf(PreRegion, pr.node) = 2
       /\ get_node(PreRegion, pr.node, get_last_token(last.path))
             = [node |-> NULL, fault |-> "none"]
       /\ Len(get_last_token(last.path)) \in 1 .. NAME_MAX_LEN
       /\ SlotAt(PreRegion, pr.node, 0)
       /\ offset_to_pointer(PreRegion[pr.node + OffValue1]) - SizeT \in Addrs
       /\ PreRegion[offset_to_pointer(PreRegion[pr.node + OffValue1]) - SizeT]
             \div SizeT = PreRegion[pr.node + OffValue0]

\* the payload bytes of the parent's children table before the last call
PreTableBytes ==
    PreRegion[offset_to_pointer(PreRegion[PreParent + OffValue1]) - SizeT]

\* one free block has room for the doubled table, the inode and a first
\* children table, each with its header and the allocator's split margin
EnoughSpace ==
    \E b \in Range(FreeList(PreRegion)) :
        b.remaining >= (2 * PreTableBytes + DataBlockSize + SizeT)
                         + (InodeSize + DataBlockSize + SizeT)
                         + (4 * SizeT + DataBlockSize + SizeT)

\* C2: a create on a directory whose num_children equals its table capacity,
\* with enough free space, reallocates the table to double capacity with all
\* existing slots preserved, the directory refers to that table, and the
\* create succeeds.
C2_TableDoubling ==
    (CreateOnFullTable /\ EnoughSpace) =>
       /\ last.done /\ last.ret = 0
       /\ SlotAt(mem, PreParent, 0)
       /\ offset_to_pointer(mem[PreParent + OffValue1]) - SizeT \in Addrs
       /\ mem[offset_to_pointer(mem[PreParent + OffValue1]) - SizeT]
             = 2 * PreTableBytes
       /\ \A i \in 0 .. (PreRegion[PreParent + OffValue0] - 1) :
             /\ SlotAt(mem, PreParent, i)
             /\ Slot(mem, PreParent, i) = Slot(PreRegion, PreParent, i)

\* C3: after any sequence of allocator operations, the bytes of the free
\* blocks (header and remaining) plus the bytes of the live allocations
\* (header and payload) equal the region size minus the offset of the first
\* free block installed at mount.
C3_ByteConservation ==
    fault = "none" => FreeBytes(mem) + SumSet(live, mem) = FsSize - FirstFree

\* C4: in every state reachable by allocate, free and reallocate the free
\* list runs in strictly ascending offset order to the terminator 0, its
\* blocks are disjoint and never adjacent, and every block ends in the region.
C4_FreeListWellFormed ==
    fault = "none" => WellFormed(mem)

\* C5: for every reachable free list and every size n for which malloc_impl
\* succeeds, free_impl of the returned block restores the free list exactly:
\* the same block offsets and remaining counts as before the allocation.
C5_RoundTrip ==
    fault = "none" =>
       \A n \in AllocSizes :
          LET Back(r) ==
                  (r.ptr # NULL /\ r.size = 0)
                     => FreeList(free_impl(r.m, r.ptr)) = FreeList(mem)
          IN  Back(malloc_impl(mem, n))

\* C6: whenever no free block has remaining >= the requested size,
\* malloc_impl returns NULL with the size out-parameter non-zero and the free
\* list is exactly as before the call.
C6_NoPartialFulfilment ==
    (/\ last.op = "malloc"
     /\ \A b \in Range(last.pre) : b.remaining < last.arg)
       => /\ last.ret = NULL
          /\ last.size # 0
          /\ FreeList(mem) = last.pre

\* C7: mount_filesystem on a region whose magic is 0xADDBEEF changes no byte
\* of it, a getattr or readdir that finds the region mounted leaves it as it
\* found it, and getattr and readdir on any path return the same results
\* after a remount as before it.
C7_MountIdempotent ==
    /\ IsMounted(mem) =>
          /\ \A t \in 1 .. MaxClock : mount_filesystem(mem, FsSize, t) = mem
          /\ \A p \in Paths :
                LET Same(remounted) ==
                       /\ myfs_getattr_implem(remounted, FsSize, p, now)
                             = myfs_getattr_implem(mem, FsSize, p, now)
                       /\ myfs_readdir_implem(remounted, FsSize, p, now)
                             = myfs_readdir_implem(mem, FsSize, p, now)
                IN  Same(mount_filesystem(mem, FsSize, MaxClock))
    /\ (last.op \in {"getattr", "readdir"} /\ IsMounted(last.mem0))
          => mem = last.mem0

\* a getattr found a mounted region with a child in the root directory
C7_Witness ==
    /\ last.op = "getattr" /\ last.done
    /\ IsMounted(last.mem0)
    /\ last.mem0[RootOf(last.mem0) + OffValue0] > 1
    /\ mem = last.mem0

\* the layout the first mount of a zeroed region produces
FirstLayout(m) ==
    LET root  == SuperblockSize
        table == SuperblockSize + InodeSize + SizeT
    IN  /\ m[OffMagic] = MAGIC_NUMBER
        /\ m[OffSize] = FsSize
        /\ m[OffRootDir] = root
        /\ Unpack(m[root]) = <<SLASH>>
        /\ \A w \in 1 .. NameWords - 1 : m[root + SizeT * w] = 0
        /\ TypeOf(m, root) = 2
        /\ m[root + OffValue0] = 1
        /\ m[root + OffValue1] = table
        /\ m[table - SizeT] = 4 * SizeT
        /\ m[table] = 0
        /\ m[OffFreeMem] = table + 4 * SizeT
        /\ FreeList(m) = <<[off |-> table + 4 * SizeT,
                            remaining |-> FsSize - (table + 4 * SizeT) - SizeT]>>
        /\ m[table + 4 * SizeT + OffNext] = 0

\* the last call mounted a zeroed region and did nothing else to it
FirstMountOnly ==
    /\ \/ last.op \in {"getattr", "readdir"}
       \/ last.op = "truncate" /\ last.arg < 0
    /\ last.mem0 = ZeroRegion

\* C8: the first mount of a zeroed region of size fssize >= 2048 produces
\* the magic, the recorded size, the root inode right after the superblock
\* with name "/", type directory and num_children 1, a 4-slot children table
\* right after the root inode with slot 0 = 0, the free-list head at the
\* first byte after that table, and one free block that ends at fssize.
C8_FirstMount ==
    /\ FirstLayout(mount_filesystem(ZeroRegion, FsSize, now))
    /\ FirstMountOnly => FirstLayout(mem)

\* a getattr was the first call on the zeroed region
C8_Witness ==
    /\ last.op = "getattr" /\ last.done
    /\ last.mem0 = ZeroRegion
    /\ IsMounted(mem)

\* C9: for every directory d reached from the root, num_children is 1 plus
\* the number of children in slots 1 .. num_children - 1, and the names of
\* the inodes in those slots are pairwise distinct.
C9_DirectoryCounts ==
    (fault = "none" /\ IsMounted(mem)) =>
       \A d \in DirsBelow(mem, RootOf(mem), TreeDepth) :
          InodeAt(d) =>
             LET real == {i \in ChildSlots(mem, d) :
                            /\ SlotAt(mem, d, i)
                            /\ Slot(mem, d, i) # 0
                            /\ InodeAt(Slot(mem, d, i))}
             IN  /\ mem[d + OffValue0] = 1 + Cardinality(real)
                 /\ \A i, j \in real :
                       i # j => NameOf(mem, Slot(mem, d, i))
                                   # NameOf(mem, Slot(mem, d, j))

\* C10: every inode offset in slots 1 .. num_children - 1 of a directory is
\* non-zero, refers to an allocated inode (not to memory on the free list)
\* and appears in no other slot; an inode just created is referenced by
\* exactly one slot.
C10_TreeShape ==
    (fault = "none" /\ IsMounted(mem)) =>
       /\ \A s \in TreeSlots(mem) :
             /\ SlotAt(mem, s[1], s[2])
             /\ Slot(mem, s[1], s[2]) # 0
             /\ InodeAt(Slot(mem, s[1], s[2]))
             /\ OffFreeList(mem, Slot(mem, s[1], s[2]), InodeSize)
       /\ \A s, u \in TreeSlots(mem) :
             s # u => Slot(mem, s[1], s[2]) # Slot(mem, u[1], u[2])
       /\ Created =>
             Cardinality({s \in TreeSlots(mem) :
                             /\ SlotAt(mem, s[1], s[2])
                             /\ Slot(mem, s[1], s[2]) = NewNode}) = 1

\* the directory d has a child named name in one of its slots 1 .. num_children - 1
HasChild(m, d, name) ==
    \E i \in ChildSlots(m, d) :
        /\ SlotAt(m, d, i)
        /\ InodeAt(Slot(m, d, i))
        /\ NameOf(m, Slot(m, d, i)) = name

\* the basename of a path: its bytes after its last '/'
BaseName(path) ==
    LET slashes == {i \in 1 .. Len(path) : path[i] = SLASH}
    IN  SubSeq(path, (CHOOSE i \in slashes : \A j \in slashes : j <= i) + 1,
               Len(path))

\* the last call was a create that returned
CreateReturned == last.op \in {"mknod", "mkdir"} /\ last.done

\* the last call returned -1 with the error e
Failed(e) == last.ret = -1 /\ last.err = e

\* C11: mknod and mkdir return -1 with ENOENT when the parent path does not
\* resolve, ENOTDIR when the parent is a regular file, EEXIST when the
\* parent has a child with the basename, ENOENT when the basename is empty
\* and ENAMETOOLONG when it is longer than 255 bytes; a basename of exactly
\* 255 bytes is accepted and, when the create succeeds, is the new name.
C11_CreateErrors ==
    CreateReturned =>
       LET Checked(pr, base) ==
              /\ pr.node = NULL => Failed("ENOENT")
              /\ (pr.node # NULL /\ TypeOf(PreRegion, pr.node) = 1)
                    => Failed("ENOTDIR")
              /\ (pr.node # NULL /\ TypeOf(PreRegion, pr.node) = 2) =>
                    /\ HasChild(PreRegion, pr.node, base) => Failed("EEXIST")
                    /\ base = <<>> => Failed("ENOENT")
                    /\ Len(base) > NAME_MAX_LEN => Failed("ENAMETOOLONG")
                    /\ (Len(base) = NAME_MAX_LEN
                          /\ ~HasChild(PreRegion, pr.node, base)) =>
                          /\ last.err \in {"none", "ENOSPC"}
                          /\ last.ret = 0 =>
                                /\ HasChild(mem, pr.node, base)
                                /\ resolve_path(mem, last.path, 0).node # NULL
       IN  Checked(resolve_path(PreRegion, last.path, 1), BaseName(last.path))

\* a file with a name of 255 bytes was created in a directory with children
C11_Witness ==
    /\ last.op = "mknod" /\ last.done /\ last.ret = 0
    /\ last.path = Long255
    /\ PreRegion[RootOf(PreRegion) + OffValue0] > 1
    /\ NameOf(mem, resolve_path(mem, Long255, 0).node) = BaseName(Long255)

\* the paths the creates are called with
CreatePaths == CreateFilePaths \cup CreateDirPaths

\* C12: whenever mknod or mkdir returns -1 the set of resolvable paths, every
\* directory's num_children and children table, and the free list are the
\* same as before the call.
C12_CreateAllOrNothing ==
    (CreateReturned /\ last.ret = -1) =>
       /\ \A q \in CreatePaths :
             resolve_path(mem, q, 0) = resolve_path(PreRegion, q, 0)
       /\ \A d \in DirsBelow(PreRegion, RootOf(PreRegion), TreeDepth) :
             /\ mem[d + OffValue0] = PreRegion[d + OffValue0]
             /\ mem[d + OffValue1] = PreRegion[d + OffValue1]
             /\ \A i \in 0 .. (PreRegion[d + OffValue0] - 1) :
                   SlotAt(PreRegion, d, i)
                      => Slot(mem, d, i) = Slot(PreRegion, d, i)
       /\ FreeList(mem) = FreeList(PreRegion)

\* the last call was a truncate with the length n >= 0 that returned
TruncReturned == last.op = "truncate" /\ last.done /\ last.arg >= 0

\* the inode the path of the last call resolved to before the call
PreNode == resolve_path(PreRegion, last.path, 0).node

\* the last call found its path to be an inode of type ty
PreType(ty) ==
    /\ PreNode # NULL /\ InodeAt(PreNode)
    /\ TypeOf(PreRegion, PreNode) = ty

\* n bytes more than the file has fit in the free space: one free block
\* holds a block record, the data and their headers
Fits(n) ==
    \/ n <= PreRegion[PreNode + OffValue0]
    \/ \E b \in Range(FreeList(PreRegion)) :
          b.remaining >= n + FileBlockSize + 2 * DataBlockSize + 2 * SizeT

\* C13: for every existing regular file f and every N >= 0 that fits in the
\* free space, truncate(f, N) returns 0 and afterwards getattr(f) reports
\* size N.
C13_TruncateSetsSize ==
    (TruncReturned /\ PreType(1) /\ Fits(last.arg)) =>
       /\ last.ret = 0
       /\ LET Reported(ga) ==
                  /\ ga.fault = "none" /\ ga.ret = 0
                  /\ "size" \in ga.st.written /\ ga.st.size = last.arg
          IN  Reported(myfs_getattr_implem(mem, FsSize, last.path, now))

\* C14: truncate on a path that resolves to a directory returns -1 with
\* EISDIR and leaves the directory's num_children, its children table and
\* the free list unchanged.
C14_TruncateDirectory ==
    (TruncReturned /\ PreType(2)) =>
       /\ Failed("EISDIR")
       /\ mem[PreNode + OffValue0] = PreRegion[PreNode + OffValue0]
       /\ mem[PreNode + OffValue1] = PreRegion[PreNode + OffValue1]
       /\ \A i \in 0 .. (PreRegion[PreNode + OffValue0] - 1) :
             SlotAt(PreRegion, PreNode, i)
                => Slot(mem, PreNode, i) = Slot(PreRegion, PreNode, i)
       /\ FreeList(mem) = FreeList(PreRegion)

\* C15: a growing truncate of a file that cannot be satisfied returns -1
\* with ENOSPC and leaves the file's size, its first_block and the free list
\* as they were.
C15_TruncateNoSpace ==
    (/\ last.op = "truncate" /\ last.arg >= 0
     /\ PreType(1)
     /\ last.arg > PreRegion[PreNode + OffValue0]
     /\ last.arg > FreeBytes(PreRegion)) =>
       /\ last.done /\ Failed("ENOSPC")
       /\ mem[PreNode + OffValue0] = PreRegion[PreNode + OffValue0]
       /\ mem[PreNode + OffValue1] = PreRegion[PreNode + OffValue1]
       /\ FreeList(mem) = FreeList(PreRegion)

\* C16: truncate with a negative length returns -1 with EFAULT for every
\* path and changes nothing in the region apart from the first mount.
C16_TruncateNegative ==
    (last.op = "truncate" /\ last.arg < 0) =>
       /\ last.done /\ Failed("EFAULT")
       /\ \E t \in 1 .. MaxClock : mem = mount_filesystem(last.mem0, FsSize, t)
       /\ IsMounted(last.mem0) => mem = last.mem0

\* truncate with a negative length was called on a directory with a child
C16_Witness ==
    /\ last.op = "truncate" /\ last.arg < 0 /\ last.done
    /\ IsMounted(last.mem0)
    /\ PreType(2)
    /\ PreRegion[PreNode + OffValue0] > 1

\* the children of directory d that are directories, by its table
SubdirSlots(m, d) ==
    {i \in ChildSlots(m, d) :
        /\ SlotAt(m, d, i)
        /\ InodeAt(Slot(m, d, i))
        /\ TypeOf(m, Slot(m, d, i)) = 2}

\* the last call was a getattr on a path that resolves to an inode
StatCalled == last.op = "getattr" /\ PreNode # NULL /\ InodeAt(PreNode)

\* C17: getattr on a directory reports nlink = 2 + the number of its
\* immediate children that are directories, and getattr on a regular file
\* reports nlink = 1, after any sequence of creates.
C17_LinkCount ==
    StatCalled =>
       /\ last.done /\ last.ret = 0
       /\ "nlink" \in last.st.written
       /\ PreType(1) => last.st.nlink = 1
       /\ PreType(2) =>
             last.st.nlink = 2 + Cardinality(SubdirSlots(PreRegion, PreNode))

\* C18: getattr reports mode S_IFDIR|0755 for every directory and
\* S_IFREG|0755 for every regular file.
C18_Mode ==
    (StatCalled /\ last.done) =>
       /\ last.ret = 0
       /\ "mode" \in last.st.written
       /\ PreType(1) => last.st.mode = S_IFREG + Perm0755
       /\ PreType(2) => last.st.mode = S_IFDIR + Perm0755

\* C19: a successful getattr fills atime and mtime from the resolved inode's
\* two timestamps, for regular files and for directories.
C19_Times ==
    (StatCalled /\ last.done /\ last.ret = 0) =>
       /\ {"atime", "mtime"} \subseteq last.st.written
       /\ last.st.atime = PreRegion[PreNode + OffTime0]
       /\ last.st.mtime = PreRegion[PreNode + OffTime1]

\* C20: readdir on a directory returns exactly num_children - 1 names, the
\* names of the inodes in slots 1 .. num_children - 1; it returns 0 when the
\* directory has no children, -1 with ENOTDIR when the path is a regular
\* file and -1 with ENOENT when the path does not resolve; it changes
\* nothing in the region (the first mount apart).
C20_Readdir ==
    last.op = "readdir" =>
       /\ last.done
       /\ PreNode = NULL => Failed("ENOENT")
       /\ PreType(1) => Failed("ENOTDIR")
       /\ PreType(2) =>
             LET Named(nc) ==
                    /\ last.ret = nc - 1
                    /\ Len(last.names) = nc - 1
                    /\ \A i \in 1 .. (nc - 1) :
                          /\ SlotAt(PreRegion, PreNode, i)
                          /\ InodeAt(Slot(PreRegion, PreNode, i))
                          /\ last.names[i]
                                = NameOf(PreRegion, Slot(PreRegion, PreNode, i))
             IN  Named(PreRegion[PreNode + OffValue0])
       /\ \E t \in 1 .. MaxClock : mem = mount_filesystem(last.mem0, FsSize, t)

\* C21: for every existing regular file f, buffer buf and offset >= 0 that
\* fit, write(f, buf, size, offset) returns size and a following
\* read(f, offset, size) returns size bytes equal to buf.
C21_WriteReadRoundTrip ==
    (/\ last.op = "write" /\ PreType(1)
     /\ \E b \in Range(FreeList(PreRegion)) :
           b.remaining >= last.off + last.arg + FileBlockSize
                            + 2 * DataBlockSize + 2 * SizeT) =>
       /\ last.done /\ last.ret = last.arg
       /\ LET ReadBack(r) ==
                  /\ r.fault = "none" /\ r.ret = last.arg /\ r.buf = last.buf
          IN  ReadBack(myfs_read_implem(mem, FsSize, last.path,
                                        [i \in 1 .. last.arg |-> Stale],
                                        last.arg, last.off))

\* C22: for every existing path p and non-existing name q in an existing
\* directory, rename(p, q) returns 0, after which getattr(p) fails with
\* ENOENT and getattr(q) succeeds on the same inode.
C22_RenameMoves ==
    (/\ last.op = "rename"
     /\ PreNode # NULL
     /\ resolve_path(PreRegion, last.to, 0).node = NULL
     /\ LET Dir(r) == r.node # NULL /\ InodeAt(r.node)
                         /\ TypeOf(PreRegion, r.node) = 2
        IN  Dir(resolve_path(PreRegion, last.to, 1))) =>
       /\ last.done /\ last.ret = 0
       /\ LET Gone(ga) == ga.ret = -1 /\ ga.err = "ENOENT"
          IN  Gone(myfs_getattr_implem(mem, FsSize, last.path, now))
       /\ myfs_getattr_implem(mem, FsSize, last.to, now).ret = 0
       /\ resolve_path(mem, last.to, 0).node = PreNode

\* C23: rmdir on a directory whose num_children is greater than 1 returns
\* -1 with ENOTEMPTY and changes nothing; on a directory with num_children
\* = 1 it returns 0, the path no longer resolves, the parent's num_children
\* has decreased by one and the inode and its table are on the free list.
C23_Rmdir ==
    (last.op = "rmdir" /\ PreType(2) /\ PreNode # RootOf(PreRegion)) =>
       /\ last.done
       /\ PreRegion[PreNode + OffValue0] > 1 =>
             Failed("ENOTEMPTY") /\ mem = PreRegion
       /\ PreRegion[PreNode + OffValue0] = 1 =>
             /\ last.ret = 0
             /\ resolve_path(mem, last.path, 0).node = NULL
             /\ mem[PreParent + OffValue0] = PreRegion[PreParent + OffValue0] - 1
             /\ ~OffFreeList(mem, PreNode, InodeSize)
             /\ ~OffFreeList(mem, offset_to_pointer(PreRegion[PreNode + OffValue1]),
                             4 * SizeT)

EntryPoints ==
    {"getattr", "readdir", "mknod", "unlink", "rmdir", "mkdir", "rename",
     "truncate", "open", "read", "write", "utimens", "statfs"}

\* C24: every one of the thirteen entry points that returns -1 has written
\* an error code to *errnoptr during that call.
C24_ErrorWritten ==
    (last.op \in EntryPoints /\ last.done /\ last.ret = -1) =>
       last.err # "none"

\* C25: for every entry point and every exit path, no host-heap allocation
\* made for scratch path copies (token array, tokens, basename copy) is
\* still unreleased when the call returns.
C25_NoHostLeak ==
    (last.op \in EntryPoints /\ last.done) => last.host = 0

\* the size a request is raised to
MinSize(n) == IF n < DataBlockSize THEN DataBlockSize ELSE n

\* the free list s without its k-th block
Without(s, k) == SubSeq(s, 1, k - 1) \o SubSeq(s, k + 1, Len(s))

\* the last call was a malloc_impl that returned a block with *size = 0
MallocDone == last.op = "malloc" /\ last.ret # NULL /\ last.size = 0

\* C26: on a successful allocation of size s from the free block B with
\* remaining R: if R > s + sizeof(data_block_t) the block is split, the
\* allocation records payload s and a free block of R - s - sizeof(size_t)
\* bytes at offset(B) + sizeof(size_t) + s takes B's place in the list;
\* otherwise the allocation records payload R and only B is unlinked, also
\* when B was the list head.
C26_SplitOrUnlink ==
    MallocDone =>
       \E k \in 1 .. Len(last.pre) :
          /\ last.pre[k].off = last.ret - SizeT
          /\ LET Carved(B, sz, R) ==
                    IF R > sz + DataBlockSize
                    THEN /\ mem[B] = sz
                         /\ FreeList(mem) =
                              [last.pre EXCEPT
                                 ![k] = [off |-> B + SizeT + sz,
                                         remaining |-> R - sz - SizeT]]
                    ELSE /\ mem[B] = R
                         /\ FreeList(mem) = Without(last.pre, k)
             IN  Carved(last.pre[k].off, MinSize(last.arg), last.pre[k].remaining)

\* the last call was a realloc_impl to more than the block's payload
ReallocGrows ==
    /\ last.op = "realloc"
    /\ last.arg > last.mem0[last.orig - SizeT]

\* the block [p - SizeT, p + n) lies inside one block of the free list of m
OnFreeList(m, p, n) ==
    \E b \in Range(FreeList(m)) :
        b.off <= p - SizeT /\ p + n <= b.off + SizeT + b.remaining

\* C27: realloc_impl on a live block with a new size larger than its
\* payload, when a free block of sufficient size exists, returns a pointer
\* to a block of payload >= new size whose first bytes equal the old
\* contents, sets *size to 0 and puts the original block on the free list;
\* when no free block suffices it returns NULL and leaves the original
\* block live and unmodified.
C27_ReallocMoves ==
    ReallocGrows =>
       LET Old(P) ==
              IF \E b \in Range(last.pre) : b.remaining >= last.arg
              THEN /\ last.done
                   /\ last.ret # NULL
                   /\ last.size = 0
                   /\ mem[last.ret - SizeT] >= last.arg
                   /\ \A a \in Addrs :
                         a < P => mem[last.ret + a] = last.mem0[last.orig + a]
                   /\ OnFreeList(mem, last.orig, P)
              ELSE /\ last.done
                   /\ last.ret = NULL
                   /\ last.orig \in live
                   /\ mem = last.mem0
       IN  Old(last.mem0[last.orig - SizeT])

\* C28: when a block is reallocated to a larger size and the free block
\* that starts at the end of its payload has enough remaining bytes for the
\* growth, the returned pointer equals the original pointer, the payload
\* bytes are untouched and no other free block is modified.
C28_GrowInPlace ==
    ReallocGrows =>
       LET Old(P) ==
              \A k \in 1 .. Len(last.pre) :
                 (/\ last.pre[k].off = last.orig + P
                  /\ last.pre[k].remaining >= last.arg - P) =>
                    /\ last.done
                    /\ last.ret = last.orig
                    /\ \A a \in Addrs :
                          a < P => mem[last.orig + a] = last.mem0[last.orig + a]
                    /\ \A j \in 1 .. Len(last.pre) :
                          j # k => last.pre[j] \in Range(FreeList(mem))
       IN  Old(last.mem0[last.orig - SizeT])

\* the largest remaining of a free list
MaxRemaining(L) ==
    CHOOSE r \in {b.remaining : b \in Range(L)} :
       \A b \in Range(L) : b.remaining <= r

\* the lowest-addressed block among the largest of a free list
LargestBlock(L) ==
    CHOOSE b \in Range(L) :
       /\ b.remaining = MaxRemaining(L)
       /\ \A c \in Range(L) : c.remaining = b.remaining => b.off <= c.off

\* C29: an allocation without a preferred block is carved from the low end
\* of the lowest-addressed free block of maximal remaining, so the returned
\* pointer is that block's offset + sizeof(size_t); the request succeeds
\* exactly when the maximal remaining is >= the adjusted size.
C29_LargestFit ==
    last.op = "malloc" =>
       IF last.pre = <<>> THEN last.ret = NULL
       ELSE /\ last.ret # NULL => last.ret = LargestBlock(last.pre).off + SizeT
            /\ last.ret # NULL <=> MaxRemaining(last.pre) >= MinSize(last.arg)

\* the last call was a realloc_impl to n bytes, not more than the payload
ReallocShrinks ==
    /\ last.op = "realloc"
    /\ last.arg <= last.mem0[last.orig - SizeT]

RECURSIVE Coalesced(_)
\* a free list in address order with adjacent blocks joined
Coalesced(L) ==
    IF Len(L) < 2 THEN L
    ELSE IF L[1].off + SizeT + L[1].remaining = L[2].off
    THEN Coalesced(<<[off |-> L[1].off,
                      remaining |-> L[1].remaining + SizeT + L[2].remaining]>>
                   \o SubSeq(L, 3, Len(L)))
    ELSE <<L[1]>> \o Coalesced(Tail(L))

\* the free list L with block b inserted in address order
Inserted(L, b) ==
    LET below == Cardinality({k \in 1 .. Len(L) : L[k].off < b.off})
    IN  SubSeq(L, 1, below) \o <<b>> \o SubSeq(L, below + 1, Len(L))

\* the block at p keeps its first n bytes; shrunk to n when P >= n + header
ShrunkInPlace(P) ==
    /\ last.done
    /\ last.ret = last.orig
    /\ \A a \in Addrs :
          a < last.arg => mem[last.orig + a] = last.mem0[last.orig + a]
    /\ IF P < last.arg + DataBlockSize
       THEN mem = last.mem0
       ELSE /\ mem[last.orig - SizeT] = last.arg
            /\ FreeList(mem) =
                 Coalesced(Inserted(last.pre,
                                    [off |-> last.orig + last.arg,
                                     remaining |-> P - last.arg - SizeT]))

\* C30: realloc_impl to a new size not larger than the block's payload P
\* returns the original pointer with the first new-size bytes unchanged: if
\* P < new size + sizeof(data_block_t) the block and the free list are left
\* unchanged; otherwise the payload count becomes new size and the tail is
\* inserted into the free list in address order and coalesced.
C30_ReallocShrinks ==
    ReallocShrinks => ShrunkInPlace(last.mem0[last.orig - SizeT])

\* C30 for new sizes above 0: realloc_impl to a new size n with
\* 0 < n <= P returns the original pointer with the first n bytes unchanged,
\* leaves the block and the free list alone if P < n + sizeof(data_block_t)
\* and otherwise sets the payload count to n and frees the tail.
C30_ReallocShrinksNonZero ==
    (ReallocShrinks /\ last.arg > 0) =>
       ShrunkInPlace(last.mem0[last.orig - SizeT])

\* a block was shrunk and its tail joined the free block that followed it
C30_Witness ==
    /\ ReallocShrinks /\ last.arg > 0 /\ last.done
    /\ last.mem0[last.orig - SizeT] >= last.arg + DataBlockSize
    /\ last.pre # <<>>
    /\ Len(FreeList(mem)) = Len(last.pre)
    /\ mem[last.orig - SizeT] = last.arg

\* C31: after any sequence of malloc_impl, realloc_impl and free_impl calls
\* with non-zero sizes, every live allocated block records a payload count
\* of at least sizeof(data_block_t) = 16 bytes.
C31_MinimumAllocation ==
    fault = "none" => \A p \in live : mem[p - SizeT] >= DataBlockSize

\* the last call was add_data(file, n) with n > 0, and it returned
AddReturned == last.op = "add_data" /\ last.done /\ last.arg > 0

RECURSIVE ChainFrom(_, _, _)
\* the file_block_t records reached from the offset off through next
ChainFrom(m, off, fuel) ==
    IF off = 0 \/ fuel = 0 \/ ~FileBlockAt(off) THEN <<>>
    ELSE <<[off |-> off, size |-> m[off], allocated |-> m[off + OffAllocated],
            data |-> m[off + OffData]]>>
         \o ChainFrom(m, m[off + OffBlkNext], fuel - 1)

\* the bytes [from, from + n) of the region, n a multiple of the word size,
\* are zero
ZeroAt(m, from, n) ==
    \A a \in Addrs : (from <= a /\ a < from + n) => m[a] = 0

\* C32: when the region has enough free space, add_data on a file to a
\* target of N > 0 bytes returns 0 and leaves a chain reachable from
\* first_block in which every record has a non-zero data offset to its own
\* payload allocation of capacity at most BLOCK_SIZE, the used bytes of the
\* chain sum to N and every added byte is zero.
C32_ChunkChain ==
    (AddReturned /\ PreType(1) /\ Fits(last.arg)) =>
       /\ last.ret = 0
       /\ LET Chained(L) ==
                  /\ L # <<>>
                  /\ \A i \in 1 .. Len(L) :
                        /\ L[i].data # 0
                        /\ L[i].data - SizeT \in Addrs
                        /\ mem[L[i].data - SizeT] >= L[i].size
                        /\ L[i].size <= BLOCK_SIZE
                        /\ L[i].allocated <= L[i].size
                        /\ ZeroAt(mem, L[i].data, L[i].allocated)
                  /\ SumSeq([i \in 1 .. Len(L) |-> L[i].allocated]) = last.arg
          IN  Chained(ChainFrom(mem, mem[PreNode + OffValue1], MaxChain))

\* C33: every entry-point call terminates from every reachable state; the
\* chain walks of truncate's helpers stop at the terminator offset 0 and
\* never continue into the superblock at offset 0.
C33_WalksStop ==
    last.op \in EntryPoints =>
       fault \notin {"walk does not end", "free_file_blocks continues at offset 0"}

\* the directories mkdir is called for, each with the path of its parent
DotDirs == {<<PathA, PathRoot>>, <<PathAB, PathA>>}

\* the path p resolves to a directory in the region m
IsDir(m, p) ==
    LET Dir(r) ==
            /\ r.fault = "none" /\ r.node # NULL /\ InodeAt(r.node)
            /\ TypeOf(m, r.node) = 2
    IN  Dir(resolve_path(m, p, 0))

\* in the region m the directory at p keeps the inode of its parent at q in
\* slot 0, p/.. resolves as q does and p/. as p does
DotHolds(m, p, q) ==
    LET Same(rp, rq, rdd, rd) ==
            /\ rp.fault = "none" /\ rp.node # NULL /\ InodeAt(rp.node)
            /\ rq.fault = "none" /\ rq.node # NULL
            /\ SlotAt(m, rp.node, 0)
            /\ Slot(m, rp.node, 0) = rq.node
            /\ rdd = rq
            /\ rd = rp
    IN  Same(resolve_path(m, p, 0), resolve_path(m, q, 0),
             resolve_path(m, p \o <<SLASH, DOT, DOT>>, 0),
             resolve_path(m, p \o <<SLASH, DOT>>, 0))

\* C34: for every directory created by mkdir at path p with parent path q,
\* slot 0 of its children table holds the parent's inode offset, p/..
\* resolves to the same inode as q and p/. to the same inode as p, right
\* after the mkdir and after every later create that returns.
C34_DotDot ==
    CreateReturned =>
       \A d \in DotDirs :
          (\/ last.op = "mkdir" /\ last.ret = 0 /\ last.path = d[1]
           \/ IsDir(PreRegion, d[1]) /\ DotHolds(PreRegion, d[1], d[2]))
             => DotHolds(mem, d[1], d[2])

\* the first slot in 1 .. num_children - 1 of d whose inode is named name
ChildNamed(m, d, name) ==
    LET hits == {i \in ChildSlots(m, d) :
                    /\ SlotAt(m, d, i) /\ InodeAt(Slot(m, d, i))
                    /\ NameOf(m, Slot(m, d, i)) = name}
    IN  Slot(m, d, CHOOSE i \in hits : \A j \in hits : i <= j)

RECURSIVE NamesNothing(_, _, _)
\* from the inode node on, some token of tokens is applied to a regular
\* file or names no child of the directory reached so far; nothing is said
\* of ".." in a directory whose parent slot is 0
NamesNothing(m, node, tokens) ==
    /\ tokens # <<>>
    /\ InodeAt(node)
    /\ \/ TypeOf(m, node) = 1
       \/ /\ TypeOf(m, node) = 2
          /\ CASE Head(tokens) = <<DOT>> ->
                     NamesNothing(m, node, Tail(tokens))
               [] Head(tokens) = <<DOT, DOT>> ->
                     /\ SlotAt(m, node, 0)
                     /\ Slot(m, node, 0) # 0
                     /\ NamesNothing(m, Slot(m, node, 0), Tail(tokens))
               [] OTHER ->
                     \/ ~HasChild(m, node, Head(tokens))
                     \/ NamesNothing(m, ChildNamed(m, node, Head(tokens)),
                                     Tail(tokens))

\* the path has to resolve to absent in the region m
MustBeAbsent(m, path) ==
    \/ path = <<>>
    \/ Head(path) # SLASH
    \/ /\ Len(path) > 1
       /\ NamesNothing(m, RootOf(m), tokenize(SLASH, path, 0))

\* the last call was a getattr or a readdir that returned
LookupReturned == last.op \in {"getattr", "readdir"} /\ last.done

\* C35: path resolution yields absent, and getattr and readdir return -1
\* with ENOENT, whenever some token of the path names no child of the
\* directory reached so far or some token, be it ".", ".." or empty, is
\* applied to a regular file; a path not starting with "/" never resolves.
C35_ResolveAbsent ==
    (LookupReturned /\ MustBeAbsent(PreRegion, last.path)) =>
       /\ resolve_path(PreRegion, last.path, 0).node = NULL
       /\ Failed("ENOENT")

\* "." was applied to the regular file /b, next to a directory with a child
C35_Witness ==
    /\ LookupReturned /\ last.path = PathBDot
    /\ HasChild(PreRegion, RootOf(PreRegion), <<98>>)
    /\ TypeOf(PreRegion, ChildNamed(PreRegion, RootOf(PreRegion), <<98>>)) = 1
    /\ IsDir(PreRegion, PathA) /\ ~MustBeAbsent(PreRegion, PathAA)
    /\ Failed("ENOENT")

\* the inodes of the tree in the region m: the root and every inode named
\* by a slot 1 .. num_children - 1 of a directory reached from the root
TreeInodes(m) ==
    {RootOf(m)} \cup {Slot(m, s[1], s[2]) : s \in {u \in TreeSlots(m) :
                                                    SlotAt(m, u[1], u[2])}}

\* C36: offset 0 is never treated as an inode: for every path resolve_path
\* returns either absent or an inode at a non-zero offset that is the root
\* or was created by mknod or mkdir; ".." from the root, as in
\* getattr("/.."), does not return the superblock at offset 0.
C36_NoInodeAtZero ==
    LookupReturned =>
       LET Inode(r) ==
               \/ r.node = NULL
               \/ r.node # 0 /\ r.node \in TreeInodes(PreRegion)
       IN  Inode(resolve_path(PreRegion, last.path, 0))

DotNames == {<<DOT>>, <<DOT, DOT>>}

\* C37: no inode is ever named "." or "..": mknod or mkdir whose basename is
\* "." or ".." fails without adding a child, so readdir never lists "." or
\* "..".
C37_NoDotNames ==
    /\ (CreateReturned /\ BaseName(last.path) \in DotNames) =>
          /\ last.ret = -1
          /\ (PreParent # NULL /\ InodeAt(PreParent)) =>
                mem[PreParent + OffValue0] = PreRegion[PreParent + OffValue0]
    /\ (last.op = "readdir" /\ last.done) =>
          \A i \in 1 .. Len(last.names) : last.names[i] \notin DotNames
    /\ (fault = "none" /\ IsMounted(mem)) =>
          \A s \in TreeSlots(mem) :
             (SlotAt(mem, s[1], s[2]) /\ InodeAt(Slot(mem, s[1], s[2])))
                => NameOf(mem, Slot(mem, s[1], s[2])) \notin DotNames

\* the directory d has a children table with room for its num_children slots
TableHolds(m, d) ==
    /\ InodeAt(d)
    /\ m[d + OffValue1] # 0
    /\ SlotAt(m, d, 0)
    /\ m[d + OffValue1] - SizeT \in Addrs
    /\ 1 <= m[d + OffValue0]
    /\ m[d + OffValue0] <= m[m[d + OffValue1] - SizeT] \div SizeT

\* C38: in every state reachable through the entry points every directory
\* reachable from the root has a non-zero children-table offset and
\* 1 <= num_children <= the capacity of that table, its allocation's
\* payload bytes / sizeof(fs_offset).
C38_TableBounds ==
    (fault = "none" /\ IsMounted(mem)) =>
       \A d \in DirsBelow(mem, RootOf(mem), TreeDepth) : TableHolds(mem, d)

\* C39: pointer_to_offset returns p - base when p lies in
\* [base, base + length] and 0 for any p below base or above base + length;
\* offset_to_pointer returns base + o when o <= length and absent for any
\* o > length.
C39_Translation ==
    /\ last.op = "pointer_to_offset" =>
          last.ret = (IF 0 <= last.arg /\ last.arg <= FsSize
                      THEN last.arg ELSE 0)
    /\ last.op = "offset_to_pointer" =>
          last.ret = (IF ULe(last.arg, FsSize) THEN last.arg ELSE NULL)

==========================================================================
